---- MODULE Spec2Model ----
(***************************************************************************)
(* Project planner (visakha/mdm-prj-plnr): the persistence layer           *)
(* (src/src/database.py, class ProjectManagerDB over SQLite), the          *)
(* configuration store (src/src/config.py) and the handlers of the main    *)
(* window (src/src/main_app.py) that call them.                            *)
(*                                                                         *)
(* Dates are day numbers (an integer; timedelta(days=n) adds n).  An       *)
(* Optional[...] value is None (the empty sequence) or Some(x) (the        *)
(* one-element sequence).  A table is the sequence of its rows in rowid    *)
(* order; SQLite assigns an INTEGER PRIMARY KEY id as max(rowid)+1, so a   *)
(* new row goes last and its id is one more than the last row's.           *)
(***************************************************************************)
EXTENDS Integers, Sequences, FiniteSets, TLC

VARIABLES
    db,        \* the SQLite database file: one sequence of rows per table
    today,     \* date.today()
    config,    \* ConfigManager.config: its sections and their options
    sessions,  \* sessions obtained from get_session() and never close()d
    app,       \* per process: the state of its ProjectPlannerApp window
    ret        \* the last call: its name, arguments and outcome

vars == <<db, today, config, sessions, app, ret>>

None == <<>>
Some(x) == <<x>>

----------------------------------------------------------------------------
(* Bounds of the model. *)

MaxProjects == 2    \* stored projects
MaxRows == 1        \* rows of each other table, under Spec
MaxTasks == 2       \* stored tasks, under SpecTasks
MaxDay == 1         \* the last day reached
MaxLeaked == 1      \* sessions left open
MaxPlanRuns == 2    \* completed runs of the plan template

(* Inputs. *)
Names == {"Alpha", "Beta", "Gamma"}
PlanNames == {"Alpha", "Beta"}
StartOffsets == {0, 6}
TargetOffsets == {30, 210}
Procs == {1, 2}
MainProc == 1

----------------------------------------------------------------------------
(* The persistence layer: database.py.  Each operation is a function of    *)
(* the database (and its arguments) that yields the database after the     *)
(* call, the value returned (None when the call raised or returned None),  *)
(* the exception raised ("" when none) and whether session.close() was     *)
(* reached.                                                                *)

Result(d, value, error, closed) ==
    [db |-> d, value |-> value, error |-> error, closed |-> closed]

NextId(table) == IF table = <<>> THEN 1 ELSE table[Len(table)].id + 1

EmptyDb ==
    [projects |-> <<>>, phases |-> <<>>, epics |-> <<>>, tasks |-> <<>>,
     subtasks |-> <<>>, daily_logs |-> <<>>]

Ids(table) == {table[i].id : i \in DOMAIN table}

Row(table, id) == table[CHOOSE i \in DOMAIN table : table[i].id = id]

NameStored(d, name) == \E i \in DOMAIN d.projects : d.projects[i].name = name

(* create_project without the UNIQUE constraint on projects.name. *)
create_project_no_unique(d, name, start_date, end_date_target) ==
    LET project == [id |-> NextId(d.projects), name |-> name,
                    start_date |-> start_date,
                    end_date_target |-> end_date_target,
                    status |-> "Planned"]
    IN Result([d EXCEPT !.projects = Append(@, project)], Some(project), "", TRUE)

(* create_project overwriting the stored row on a name clash (an upsert). *)
create_project_upsert(d, name, start_date, end_date_target) ==
    IF NameStored(d, name)
    THEN LET i == CHOOSE j \in DOMAIN d.projects : d.projects[j].name = name
         IN Result([d EXCEPT !.projects[i].start_date = start_date,
                             !.projects[i].end_date_target = end_date_target],
                   None, "IntegrityError", FALSE)
    ELSE create_project_no_unique(d, name, start_date, end_date_target)

(* session.commit() flushes the INSERT; projects.name is UNIQUE, so a name  *)
(* already stored raises IntegrityError out of commit(): the row is not     *)
(* inserted, and refresh() and close() are not reached.                     *)
create_project(d, name, start_date, end_date_target) ==
    IF NameStored(d, name)
    THEN Result(d, None, "IntegrityError", FALSE)
    ELSE LET project == [id |-> NextId(d.projects), name |-> name,
                         start_date |-> start_date,
                         end_date_target |-> end_date_target,
                         status |-> "Planned"]
         IN Result([d EXCEPT !.projects = Append(@, project)],
                   Some(project), "", TRUE)

get_project_by_name(d, name) ==
    IF NameStored(d, name)
    THEN Some(d.projects[CHOOSE i \in DOMAIN d.projects :
                            /\ d.projects[i].name = name
                            /\ \A j \in 1 .. i - 1 : d.projects[j].name # name])
    ELSE None

get_all_projects(d) == d.projects

(* The engine is created by create_engine("sqlite:///project_plan.db") and *)
(* nothing issues PRAGMA foreign_keys=ON, so SQLite does not enforce the   *)
(* ForeignKey columns: the INSERT succeeds whatever the parent id is.      *)
(* add_phase storing its two dates the other way round. *)
add_phase_swapped_dates(d, project_id, name, description, start_date, end_date) ==
    LET phase == [id |-> NextId(d.phases), project_id |-> project_id,
                  name |-> name, description |-> description,
                  start_date |-> end_date, end_date |-> start_date]
    IN Result([d EXCEPT !.phases = Append(@, phase)], Some(phase), "", TRUE)

add_phase(d, project_id, name, description, start_date, end_date) ==
    LET phase == [id |-> NextId(d.phases), project_id |-> project_id,
                  name |-> name, description |-> description,
                  start_date |-> start_date, end_date |-> end_date]
    IN Result([d EXCEPT !.phases = Append(@, phase)], Some(phase), "", TRUE)

add_epic(d, phase_id, name, description, status) ==
    LET epic == [id |-> NextId(d.epics), phase_id |-> phase_id, name |-> name,
                 description |-> description, status |-> status]
    IN Result([d EXCEPT !.epics = Append(@, epic)], Some(epic), "", TRUE)

(* add_task giving a task without a due date the day it is given none. *)
add_task_default_due(d, epic_id, name, description, assigned_to, priority, status, jira_link, start_date, due_date) ==
    LET task == [id |-> NextId(d.tasks), epic_id |-> epic_id, name |-> name,
                 description |-> description, assigned_to |-> assigned_to,
                 priority |-> priority, status |-> status,
                 jira_link |-> jira_link, start_date |-> start_date,
                 due_date |-> IF due_date = None THEN Some(0) ELSE due_date,
                 completed_date |-> None]
    IN Result([d EXCEPT !.tasks = Append(@, task)], Some(task), "", TRUE)

add_task(d, epic_id, name, description, assigned_to, priority, status, jira_link, start_date, due_date) ==
    LET task == [id |-> NextId(d.tasks), epic_id |-> epic_id, name |-> name,
                 description |-> description, assigned_to |-> assigned_to,
                 priority |-> priority, status |-> status,
                 jira_link |-> jira_link, start_date |-> start_date,
                 due_date |-> due_date, completed_date |-> None]
    IN Result([d EXCEPT !.tasks = Append(@, task)], Some(task), "", TRUE)

(* update_task_status that stamps completed_date only on the first Done. *)
update_task_status_restarting(d, now, task_id, new_status) ==
    IF task_id \in Ids(d.tasks)
    THEN LET i == CHOOSE j \in DOMAIN d.tasks : d.tasks[j].id = task_id
             completed == IF new_status = "Done" THEN Some(now)
                          ELSE d.tasks[i].completed_date
             nd == [d EXCEPT !.tasks[i].status = new_status,
                             !.tasks[i].completed_date = completed,
                             !.tasks[i].start_date = Some(now)]
         IN Result(nd, Some(nd.tasks[i]), "", TRUE)
    ELSE Result(d, None, "", TRUE)

update_task_status_keep_first(d, now, task_id, new_status) ==
    IF task_id \in Ids(d.tasks)
    THEN LET i == CHOOSE j \in DOMAIN d.tasks : d.tasks[j].id = task_id
             completed == IF new_status = "Done" /\ d.tasks[i].completed_date = None
                          THEN Some(now)
                          ELSE d.tasks[i].completed_date
             nd == [d EXCEPT !.tasks[i].status = new_status,
                             !.tasks[i].completed_date = completed]
         IN Result(nd, Some(nd.tasks[i]), "", TRUE)
    ELSE Result(d, None, "", TRUE)

(* update_task_status that clears completed_date when the status leaves Done. *)
update_task_status_clearing(d, now, task_id, new_status) ==
    IF task_id \in Ids(d.tasks)
    THEN LET i == CHOOSE j \in DOMAIN d.tasks : d.tasks[j].id = task_id
             completed == IF new_status = "Done" THEN Some(now) ELSE None
             nd == [d EXCEPT !.tasks[i].status = new_status,
                             !.tasks[i].completed_date = completed]
         IN Result(nd, Some(nd.tasks[i]), "", TRUE)
    ELSE Result(d, None, "", TRUE)

(* update_task_status that takes a missing id for the last stored task. *)
update_task_status_clamped(d, now, task_id, new_status) ==
    IF d.tasks # <<>>
    THEN LET i == IF task_id \in Ids(d.tasks)
                  THEN CHOOSE j \in DOMAIN d.tasks : d.tasks[j].id = task_id
                  ELSE Len(d.tasks)
             completed == IF new_status = "Done" THEN Some(now)
                          ELSE d.tasks[i].completed_date
             nd == [d EXCEPT !.tasks[i].status = new_status,
                             !.tasks[i].completed_date = completed]
         IN Result(nd, Some(nd.tasks[i]), "", TRUE)
    ELSE Result(d, None, "", TRUE)

update_task_status(d, now, task_id, new_status) ==
    IF task_id \in Ids(d.tasks)
    THEN LET i == CHOOSE j \in DOMAIN d.tasks : d.tasks[j].id = task_id
             completed == IF new_status = "Done" THEN Some(now)
                          ELSE d.tasks[i].completed_date
             nd == [d EXCEPT !.tasks[i].status = new_status,
                             !.tasks[i].completed_date = completed]
         IN Result(nd, Some(nd.tasks[i]), "", TRUE)
    ELSE Result(d, None, "", TRUE)

(* log_date if log_date else date.today(); the timestamp column defaults   *)
(* to datetime.now() at the INSERT (its date part is kept here).           *)
(* add_daily_log taking day 0 for no date (the test `if log_date` on a     *)
(* number).                                                                *)
add_daily_log_day_zero_falsy(d, now, project_id, text, log_date) ==
    LET log == [id |-> NextId(d.daily_logs), project_id |-> project_id,
                log_date |-> IF log_date # None /\ log_date[1] # 0
                             THEN log_date[1] ELSE now,
                text |-> text, timestamp |-> now]
    IN Result([d EXCEPT !.daily_logs = Append(@, log)], Some(log), "", TRUE)

add_daily_log(d, now, project_id, text, log_date) ==
    LET log == [id |-> NextId(d.daily_logs), project_id |-> project_id,
                log_date |-> IF log_date # None THEN log_date[1] ELSE now,
                text |-> text, timestamp |-> now]
    IN Result([d EXCEPT !.daily_logs = Append(@, log)], Some(log), "", TRUE)

(* SQLite's BINARY collation on the priorities in use: "High" < "Low" <    *)
(* "Medium", byte by byte.                                                 *)
binary_severity(priority) ==
    CASE priority = "Low" -> 1
      [] priority = "Medium" -> 2
      [] priority = "High" -> 3

binary(priority) ==
    CASE priority = "High" -> 1
      [] priority = "Low" -> 2
      [] priority = "Medium" -> 3

(* ORDER BY ... ASC on a nullable column: SQLite puts NULL before every    *)
(* value.                                                                  *)
asc(a, b) == (a = None /\ b # None) \/ (a # None /\ b # None /\ a[1] < b[1])

(* The join without its WHERE clause. *)
joined_any_project(d, project_id) ==
    {row \in (DOMAIN d.tasks) \X (DOMAIN d.epics) \X (DOMAIN d.phases) :
         /\ d.tasks[row[1]].epic_id = d.epics[row[2]].id
         /\ d.epics[row[2]].phase_id = d.phases[row[3]].id}

(* query(Task).join(Epic).join(Phase).filter(Phase.project_id == ...): the *)
(* rows of the inner joins, as <<task, epic, phase>> indices.              *)
joined(d, project_id) ==
    {row \in (DOMAIN d.tasks) \X (DOMAIN d.epics) \X (DOMAIN d.phases) :
         /\ d.tasks[row[1]].epic_id = d.epics[row[2]].id
         /\ d.epics[row[2]].phase_id = d.phases[row[3]].id
         /\ d.phases[row[3]].project_id = project_id}

(* order_by(Task.due_date.asc(), Task.priority.desc()): a comes strictly   *)
(* before b.                                                               *)
task_order(a, b) ==
    \/ asc(a.due_date, b.due_date)
    \/ /\ a.due_date = b.due_date
       /\ binary(a.priority) > binary(b.priority)

(* get_tasks_for_project: every list the query may return.  Rows that tie  *)
(* on both sort keys come in an order SQLite does not define.              *)
get_tasks_for_project(d, project_id) ==
    LET rows == joined(d, project_id)
        n == Cardinality(rows)
        orders == {f \in [1 .. n -> rows] :
                       /\ \A i, j \in 1 .. n : f[i] = f[j] => i = j
                       /\ \A i, j \in 1 .. n :
                              i < j => ~task_order(d.tasks[f[j][1]],
                                                   d.tasks[f[i][1]])}
    IN {[i \in 1 .. n |-> d.tasks[f[i][1]]] : f \in orders}

(* order_by(DailyLog.log_date.asc()) in place of desc(). *)
get_daily_logs_for_project_ascending(d, project_id) ==
    LET rows == {i \in DOMAIN d.daily_logs :
                     d.daily_logs[i].project_id = project_id}
        n == Cardinality(rows)
        orders == {f \in [1 .. n -> rows] :
                       /\ \A i, j \in 1 .. n : f[i] = f[j] => i = j
                       /\ \A i, j \in 1 .. n :
                              i < j => d.daily_logs[f[i]].log_date
                                           <= d.daily_logs[f[j]].log_date}
    IN {[i \in 1 .. n |-> d.daily_logs[f[i]]] : f \in orders}

(* get_daily_logs_for_project: every list the query may return; logs of    *)
(* the same log_date come in an order SQLite does not define.              *)
get_daily_logs_for_project(d, project_id) ==
    LET rows == {i \in DOMAIN d.daily_logs :
                     d.daily_logs[i].project_id = project_id}
        n == Cardinality(rows)
        orders == {f \in [1 .. n -> rows] :
                       /\ \A i, j \in 1 .. n : f[i] = f[j] => i = j
                       /\ \A i, j \in 1 .. n :
                              i < j => d.daily_logs[f[i]].log_date
                                           >= d.daily_logs[f[j]].log_date}
    IN {[i \in 1 .. n |-> d.daily_logs[f[i]]] : f \in orders}

(* A subtask added under a task: what an add operation scoped to a task   *)
(* id does with the columns of class SubTask, after add_task.              *)
add_subtask(d, task_id, name, description, assigned_to, status) ==
    LET subtask == [id |-> NextId(d.subtasks), task_id |-> task_id,
                    name |-> name, description |-> description,
                    assigned_to |-> assigned_to, status |-> status,
                    completed_date |-> None]
    IN Result([d EXCEPT !.subtasks = Append(@, subtask)], Some(subtask), "", TRUE)

(* The rows of table whose column holds id, in rowid order: what the lazy  *)
(* load of a relationship (SELECT ... WHERE column = ?, no ORDER BY, no    *)
(* index on the column) yields in an open session.                         *)
children_newest_first(table, column, id) ==
    LET is_child(row) == row[column] = id
        found == SelectSeq(table, is_child)
    IN [i \in 1 .. Len(found) |-> found[Len(found) + 1 - i]]

children(table, column, id) ==
    LET is_child(row) == row[column] = id
    IN SelectSeq(table, is_child)

Project_phases(d, project_id) == children(d.phases, "project_id", project_id)
Project_daily_logs(d, project_id) == children(d.daily_logs, "project_id", project_id)
Phase_epics(d, phase_id) == children(d.epics, "phase_id", phase_id)
Epic_tasks(d, epic_id) == children(d.tasks, "epic_id", epic_id)
Task_subtasks(d, task_id) == children(d.subtasks, "task_id", task_id)

(* The relationships declared without "delete" among the cascades of       *)
(* Epic.tasks.                                                             *)
cascade_not_to_tasks(relationship) ==
    relationship \in {"Project.phases", "Project.daily_logs", "Phase.epics",
                      "Task.subtasks"}

(* The relationships declared with cascade="all, delete-orphan": deleting  *)
(* the parent deletes the children.  The many-to-one sides (Phase.project, *)
(* ...) keep the default cascade, which has no "delete".                   *)
cascade(relationship) ==
    relationship \in {"Project.phases", "Project.daily_logs", "Phase.epics",
                      "Epic.tasks", "Task.subtasks"}

(* The number of rows stored. *)
Rows(d) ==
    Len(d.projects) + Len(d.phases) + Len(d.epics) + Len(d.tasks)
        + Len(d.subtasks) + Len(d.daily_logs)

(* The rows of table whose id is not in ids. *)
without(table, ids) ==
    LET kept(row) == row.id \notin ids
    IN SelectSeq(table, kept)

(* The deletion of a project through the ORM: session.delete(project) and  *)
(* commit().  The unit of work loads every relationship of the object      *)
(* being deleted; where the relationship cascades "delete" the children    *)
(* are deleted with it, and where it does not they are detached from the   *)
(* parent by setting their foreign key to NULL, which the NOT NULL column  *)
(* refuses (IntegrityError, nothing is deleted).                           *)
delete_project(d, project_id) ==
    LET phases == Ids(Project_phases(d, project_id))
        logs == Ids(Project_daily_logs(d, project_id))
        epics == UNION {Ids(Phase_epics(d, id)) : id \in phases}
        tasks == UNION {Ids(Epic_tasks(d, id)) : id \in epics}
        subtasks == UNION {Ids(Task_subtasks(d, id)) : id \in tasks}
        refused == \/ phases # {} /\ ~cascade("Project.phases")
                   \/ logs # {} /\ ~cascade("Project.daily_logs")
                   \/ epics # {} /\ ~cascade("Phase.epics")
                   \/ tasks # {} /\ ~cascade("Epic.tasks")
                   \/ subtasks # {} /\ ~cascade("Task.subtasks")
    IN IF project_id \notin Ids(d.projects)
       THEN Result(d, None, "", TRUE)
       ELSE IF refused
       THEN Result(d, None, "IntegrityError", FALSE)
       ELSE Result([projects |-> without(d.projects, {project_id}),
                    phases |-> without(d.phases, phases),
                    epics |-> without(d.epics, epics),
                    tasks |-> without(d.tasks, tasks),
                    subtasks |-> without(d.subtasks, subtasks),
                    daily_logs |-> without(d.daily_logs, logs)],
                   Some(Row(d.projects, project_id)), "", TRUE)

----------------------------------------------------------------------------
(* The configuration store: config.py, a configparser.ConfigParser.  A     *)
(* stored value is a sequence of pieces of text: a piece is one character, *)
(* or a run of text that holds no "%" and is not read as part of a         *)
(* reference.  config is [sections, options]: the names of the sections    *)
(* (the DEFAULT section is not among them), and the stored value of every  *)
(* <<section, option>>.                                                    *)

(* str.lower() on the option names in use. *)
optionxform(key) ==
    CASE key = "SSA1_Name" -> "ssa1_name"
      [] key = "SA2_Name" -> "sa2_name"
      [] key = "Offshore_PM_Name" -> "offshore_pm_name"
      [] key = "Offshore_Devs_Count" -> "offshore_devs_count"
      [] key = "K" -> "k"
      [] key = "J" -> "j"
      [] OTHER -> key

(* ''.join(pieces) *)
RECURSIVE Text(_)
Text(pieces) == IF pieces = <<>> THEN "" ELSE Head(pieces) \o Text(Tail(pieces))

(* str(value) of a Python str or int. *)
str(value) == IF value.type = "int" THEN <<ToString(value.n)>> ELSE value.s

PyStr(pieces) == [type |-> "str", s |-> pieces]
PyInt(n) == [type |-> "int", n |-> n]

default_section == "DEFAULT"

(* configparser.MAX_INTERPOLATION_DEPTH *)
MAX_INTERPOLATION_DEPTH == 10

(* What _create_default_config writes when the file does not exist. *)
DefaultConfig ==
    [sections |-> {"PROJECT_DEFAULTS", "TEAM_MEMBERS", "HOLIDAYS", "SKILLS", "COMMUNICATION", "PROJECT_CHALLENGES"},
     options |->
        (<<"PROJECT_DEFAULTS", "epicnamedefault">> :> <<"Ingress, Egress, MDM Customization">>)
        @@ (<<"PROJECT_DEFAULTS", "tasknamedefault">> :> <<"Requirements Gathering, Technical Design, Development, Testing">>)
        @@ (<<"PROJECT_DEFAULTS", "subtasknamedefault">> :> <<"Data Mapping, UI Screens, RBAC Roles">>)
        @@ (<<"TEAM_MEMBERS", "ssa1_name">> :> <<"Senior Solutions Architect (USA)">>)
        @@ (<<"TEAM_MEMBERS", "sa2_name">> :> <<"Solutions Architect (USA)">>)
        @@ (<<"TEAM_MEMBERS", "offshore_pm_name">> :> <<"Offshore Project Manager (India)">>)
        @@ (<<"TEAM_MEMBERS", "offshore_devs_count">> :> <<"6">>)
        @@ (<<"HOLIDAYS", "india_holidays_yyyy-mm-dd">> :> <<"2025-08-15, 2025-10-02, 2025-10-23">>)
        @@ (<<"HOLIDAYS", "us_holidays_yyyy-mm-dd">> :> <<"2025-07-04, 2025-09-01, 2025-11-27">>)
        @@ (<<"SKILLS", "ssa1_skills">> :> <<"Architecture, MDM, ETL, Client Management, Risk Mitigation">>)
        @@ (<<"SKILLS", "sa2_skills">> :> <<"ETL, Data Pipelines, MDM Customization, Hands-on Development, POCs">>)
        @@ (<<"SKILLS", "offshore_dev_skills_expected">> :> <<"Python, SQL, ETL Tools, Vendor MDM APIs, Unit Testing">>)
        @@ (<<"COMMUNICATION", "overlap_hours">> :> <<"2">>)
        @@ (<<"COMMUNICATION", "daily_call_time_us_et">> :> <<"9:00 AM">>)
        @@ (<<"COMMUNICATION", "weekly_recon_day">> :> <<"Monday">>)
        @@ (<<"COMMUNICATION", "weekly_recon_time_us_et">> :> <<"11:00 AM">>)
        @@ (<<"PROJECT_CHALLENGES", "time_constraint">> :> <<"7 months">>)
        @@ (<<"PROJECT_CHALLENGES", "scope_change_frequency">> :> <<"Regular">>)
        @@ (<<"PROJECT_CHALLENGES", "team_technical_strength">> :> <<"Not strong, many POCs needed">>)
        @@ (<<"PROJECT_CHALLENGES", "ssa1_responsibilities">> :> <<"Client feedback, design consensus, weekly reporting">>)
        @@ (<<"PROJECT_CHALLENGES", "sa2_responsibilities">> :> <<"Hands-on, technical guidance">>)]

(* An existing project_config.ini that names no team member. *)
BareConfig ==
    [sections |-> {"TEAM_MEMBERS"},
     options |-> (<<"TEAM_MEMBERS", "offshore_devs_count">> :> <<"6">>)]

(* The parser's `section in self.config`. *)
has_section(cfg, section) ==
    section = default_section \/ section \in cfg.sections

(* _unify_values(section)[option]: the section's own option, else the      *)
(* DEFAULT section's.                                                      *)
unify_values(cfg, section, option) ==
    IF <<section, option>> \in DOMAIN cfg.options
    THEN Some(cfg.options[<<section, option>>])
    ELSE IF <<default_section, option>> \in DOMAIN cfg.options
    THEN Some(cfg.options[<<default_section, option>>])
    ELSE None

(* The index of the first ")" of rest after index i, 0 when there is none. *)
RECURSIVE closing(_, _)
closing(rest, i) ==
    IF i > Len(rest) THEN 0
    ELSE IF rest[i] = ")" THEN i
    ELSE closing(rest, i + 1)

(* _KEYCRE.match(rest), the pattern %\(([^)]+)\)s: the index of the "s"    *)
(* that ends the reference rest starts with, 0 when it starts with none.   *)
keycre_match(rest) ==
    IF Len(rest) < 5 \/ rest[1] # "%" \/ rest[2] # "("
    THEN 0
    ELSE LET j == closing(rest, 3)
         IN IF j > 3 /\ j < Len(rest) /\ rest[j + 1] = "s" THEN j + 1 ELSE 0

(* BasicInterpolation._interpolate_some: "%%" reads as "%", "%(name)s" as  *)
(* the value of option name, itself interpolated one level deeper.         *)
RECURSIVE interpolate_some(_, _, _, _, _)
interpolate_some(cfg, section, rest, accum, depth) ==
    IF depth > MAX_INTERPOLATION_DEPTH
    THEN [value |-> accum, error |-> "InterpolationDepthError"]
    ELSE IF rest = <<>>
    THEN [value |-> accum, error |-> ""]
    ELSE IF Head(rest) # "%"
    THEN interpolate_some(cfg, section, Tail(rest), Append(accum, Head(rest)),
                          depth)
    ELSE IF Len(rest) >= 2 /\ rest[2] = "%"
    THEN interpolate_some(cfg, section, SubSeq(rest, 3, Len(rest)),
                          Append(accum, "%"), depth)
    ELSE IF Len(rest) >= 2 /\ rest[2] = "("
    THEN LET m == keycre_match(rest)
             v == unify_values(cfg, section,
                               optionxform(Text(SubSeq(rest, 3, m - 2))))
             inner == IF \E i \in DOMAIN v[1] : v[1][i] = "%"
                      THEN interpolate_some(cfg, section, v[1], accum,
                                            depth + 1)
                      ELSE [value |-> accum \o v[1], error |-> ""]
         IN IF m = 0
            THEN [value |-> accum, error |-> "InterpolationSyntaxError"]
            ELSE IF v = None
            THEN [value |-> accum, error |-> "InterpolationMissingOptionError"]
            ELSE IF inner.error # ""
            THEN inner
            ELSE interpolate_some(cfg, section, SubSeq(rest, m + 1, Len(rest)),
                                  inner.value, depth)
    ELSE [value |-> accum, error |-> "InterpolationSyntaxError"]

(* value.replace('%%', '') *)
RECURSIVE strip_escaped(_)
strip_escaped(pieces) ==
    IF pieces = <<>> THEN <<>>
    ELSE IF Len(pieces) >= 2 /\ pieces[1] = "%" /\ pieces[2] = "%"
    THEN strip_escaped(SubSeq(pieces, 3, Len(pieces)))
    ELSE <<Head(pieces)>> \o strip_escaped(Tail(pieces))

(* _KEYCRE.sub('', value) *)
RECURSIVE strip_references(_)
strip_references(pieces) ==
    IF pieces = <<>> THEN <<>>
    ELSE IF keycre_match(pieces) # 0
    THEN strip_references(SubSeq(pieces, keycre_match(pieces) + 1, Len(pieces)))
    ELSE <<Head(pieces)>> \o strip_references(Tail(pieces))

(* BasicInterpolation.before_set accepts the value. *)
before_set(pieces) ==
    LET tmp_value == strip_references(strip_escaped(pieces))
    IN \A i \in DOMAIN tmp_value : tmp_value[i] # "%"

(* config.get(section, key) without its fallback: a missing section or    *)
(* option raises.                                                          *)
get_property_no_fallback(cfg, section, key) ==
    IF ~has_section(cfg, section)
    THEN [value |-> None, error |-> "NoSectionError"]
    ELSE LET raw == unify_values(cfg, section, optionxform(key))
             r == interpolate_some(cfg, section, raw[1], <<>>, 1)
         IN IF raw = None
            THEN [value |-> None, error |-> "NoOptionError"]
            ELSE IF r.error # ""
            THEN [value |-> None, error |-> r.error]
            ELSE [value |-> Some(Text(r.value)), error |-> ""]

(* config.get(section, key, fallback=None): the value as a string, or the  *)
(* exception interpolation raises.                                         *)
get_property(cfg, section, key) ==
    IF ~has_section(cfg, section)
    THEN [value |-> None, error |-> ""]
    ELSE LET raw == unify_values(cfg, section, optionxform(key))
             r == interpolate_some(cfg, section, raw[1], <<>>, 1)
         IN IF raw = None
            THEN [value |-> None, error |-> ""]
            ELSE IF r.error # ""
            THEN [value |-> None, error |-> r.error]
            ELSE [value |-> Some(Text(r.value)), error |-> ""]

(* set_property: the section is created when missing (line 99); the       *)
(* assignment of line 100 raises ValueError on a value before_set rejects, *)
(* and stores under the DEFAULT section when the section's name is empty   *)
(* (RawConfigParser.set).  _save_config rewrites the file from config.     *)
set_property(cfg, section, key, value) ==
    LET created == IF has_section(cfg, section) THEN cfg
                   ELSE [cfg EXCEPT !.sections = @ \cup {section}]
        sectdict == IF section = "" THEN default_section ELSE section
        text == str(value)
    IN IF ~before_set(text)
       THEN [config |-> created, error |-> "ValueError"]
       ELSE [config |-> [created EXCEPT !.options =
                             (<<sectdict, optionxform(key)>> :> text) @@ @],
             error |-> ""]

----------------------------------------------------------------------------
(* The state of one ProjectPlannerApp window: main_app.py.                 *)

ComboItem(text, data) == [text |-> text, data |-> data]

(* An item of the plan tree: the text of its first column and the items    *)
(* under it.  row is the id of the row the item was made from; the widget  *)
(* does not hold it, and no handler reads it.                              *)
TreeItem(text, row, items) == [text |-> text, row |-> row, items |-> items]

(* One item for each row, in the order of the rows (lines 422-447). *)
subtask_item(d, subtask) == TreeItem(subtask.name, subtask.id, <<>>)

subtask_items(d, rows) == [i \in DOMAIN rows |-> subtask_item(d, rows[i])]

task_item(d, task) ==
    TreeItem(task.name, task.id, subtask_items(d, Task_subtasks(d, task.id)))

task_items(d, rows) == [i \in DOMAIN rows |-> task_item(d, rows[i])]

epic_item(d, epic) ==
    TreeItem(epic.name, epic.id, task_items(d, Epic_tasks(d, epic.id)))

epic_items(d, rows) == [i \in DOMAIN rows |-> epic_item(d, rows[i])]

phase_item(d, phase) ==
    TreeItem(phase.name, phase.id, epic_items(d, Phase_epics(d, phase.id)))

phase_items(d, rows) == [i \in DOMAIN rows |-> phase_item(d, rows[i])]

(* _load_project_plan_tree: the tree is cleared, which leaves no current   *)
(* item, and filled from the collections of the current project.           *)
load_project_plan_tree(a, d) ==
    [a EXCEPT !.current_item = None,
              !.project_plan_tree =
                  IF \/ a.current_project_id = None
                     \/ a.current_project_id[1] \notin Ids(d.projects)
                  THEN <<>>
                  ELSE phase_items(d, Project_phases(
                                          d, a.current_project_id[1]))]

(* _on_project_selected for the combo's current item. *)
on_project_selected(a, d) ==
    LET project_id == a.project_combo[a.combo_index + 1].data
    IN load_project_plan_tree([a EXCEPT !.current_project_id = project_id], d)

(* _populate_project_combos; QComboBox.clear() and the first addItem()     *)
(* each emit currentIndexChanged, which runs _on_project_selected: the     *)
(* first item added becomes, and stays, the current one.                   *)
populate_project_combos(a, d) ==
    LET projects == get_all_projects(d)
    IN IF projects = <<>>
       THEN [a EXCEPT !.project_combo =
                          <<ComboItem("No Projects Yet - Create One!", None)>>,
                      !.combo_index = 0,
                      !.combo_enabled = FALSE,
                      !.current_project_id = None,
                      !.project_plan_tree = <<>>,
                      !.current_item = None]
       ELSE on_project_selected(
                [a EXCEPT !.project_combo =
                              [i \in DOMAIN projects |->
                                  ComboItem(projects[i].name,
                                            Some(projects[i].id))],
                          !.combo_index = 0,
                          !.combo_enabled = TRUE], d)

(* ProjectPlannerApp.__init__ on the database d. *)
NewApp(d) ==
    populate_project_combos(
        [current_project_id |-> None, project_combo |-> <<>>,
         combo_index |-> -1, combo_enabled |-> TRUE,
         project_plan_tree |-> <<>>, current_item |-> None,
         pc |-> "idle", pending |-> None], d)

----------------------------------------------------------------------------
(* What the last step did: the handler that ran ("api" for a direct call   *)
(* of the persistence layer), the process it ran in, and the last call of  *)
(* the persistence layer it made, with its arguments, the exception it     *)
(* raised ("" when none) and the value it returned.                        *)

Ret(handler, proc, op, args, r) ==
    [handler |-> handler, proc |-> proc, op |-> op, args |-> args,
     error |-> r.error, value |-> r.value]

NoCall(handler, proc) ==
    [handler |-> handler, proc |-> proc, op |-> "", args |-> None,
     error |-> "", value |-> None]

Leak(r) == IF r.closed THEN 0 ELSE 1

----------------------------------------------------------------------------
(* Calls of the persistence layer by any of its clients.                   *)

CreateProject(name, start_date, end_date_target) ==
    LET r == create_project(db, name, start_date, end_date_target)
    IN /\ db' = r.db
       /\ sessions' = sessions + Leak(r)
       /\ ret' = Ret("api", 0, "create_project",
                     [name |-> name, start_date |-> start_date,
                      end_date_target |-> end_date_target], r)
       /\ UNCHANGED <<today, config, app>>

AddPhase(project_id, name, start_date, end_date) ==
    LET r == add_phase(db, project_id, name, "", start_date, end_date)
    IN /\ db' = r.db
       /\ sessions' = sessions + Leak(r)
       /\ ret' = Ret("api", 0, "add_phase",
                     [project_id |-> project_id, name |-> name], r)
       /\ UNCHANGED <<today, config, app>>

AddEpic(phase_id, name, status) ==
    LET r == add_epic(db, phase_id, name, "", status)
    IN /\ db' = r.db
       /\ sessions' = sessions + Leak(r)
       /\ ret' = Ret("api", 0, "add_epic",
                     [phase_id |-> phase_id, name |-> name], r)
       /\ UNCHANGED <<today, config, app>>

AddTask(epic_id, name, priority, status, due_date) ==
    LET r == add_task(db, epic_id, name, "", "", priority, status, None, None,
                      due_date)
    IN /\ db' = r.db
       /\ sessions' = sessions + Leak(r)
       /\ ret' = Ret("api", 0, "add_task",
                     [epic_id |-> epic_id, name |-> name], r)
       /\ UNCHANGED <<today, config, app>>

UpdateTaskStatus(task_id, new_status) ==
    LET r == update_task_status(db, today, task_id, new_status)
    IN /\ db' = r.db
       /\ sessions' = sessions + Leak(r)
       /\ ret' = Ret("api", 0, "update_task_status",
                     [task_id |-> task_id, new_status |-> new_status], r)
       /\ UNCHANGED <<today, config, app>>

AddDailyLog(project_id, text, log_date) ==
    LET r == add_daily_log(db, today, project_id, text, log_date)
    IN /\ db' = r.db
       /\ sessions' = sessions + Leak(r)
       /\ ret' = Ret("api", 0, "add_daily_log",
                     [project_id |-> project_id, log_date |-> log_date], r)
       /\ UNCHANGED <<today, config, app>>

GetTasksForProject(project_id) ==
    /\ \E tasks \in get_tasks_for_project(db, project_id) :
           ret' = Ret("api", 0, "get_tasks_for_project",
                      [project_id |-> project_id],
                      Result(db, tasks, "", TRUE))
    /\ UNCHANGED <<db, today, config, sessions, app>>

GetDailyLogsForProject(project_id) ==
    /\ \E logs \in get_daily_logs_for_project(db, project_id) :
           ret' = Ret("api", 0, "get_daily_logs_for_project",
                      [project_id |-> project_id],
                      Result(db, logs, "", TRUE))
    /\ UNCHANGED <<db, today, config, sessions, app>>

AddSubTask(task_id, name, status) ==
    LET r == add_subtask(db, task_id, name, "", "", status)
    IN /\ db' = r.db
       /\ sessions' = sessions + Leak(r)
       /\ ret' = Ret("api", 0, "add_subtask",
                     [task_id |-> task_id, name |-> name], r)
       /\ UNCHANGED <<today, config, app>>

DeleteProject(project_id) ==
    LET r == delete_project(db, project_id)
    IN /\ db' = r.db
       /\ sessions' = sessions + Leak(r)
       /\ ret' = Ret("api", 0, "delete_project",
                     [project_id |-> project_id,
                      removed |-> Rows(db) - Rows(r.db)], r)
       /\ UNCHANGED <<today, config, app>>

(* Midnight: date.today() moves on. *)
Tick ==
    /\ today < MaxDay
    /\ today' = today + 1
    /\ ret' = NoCall("midnight", 0)
    /\ UNCHANGED <<db, config, sessions, app>>

Init ==
    /\ db = EmptyDb
    /\ today = 0
    /\ config = DefaultConfig
    /\ sessions = 0
    /\ app = [p \in Procs |-> NewApp(EmptyDb)]
    /\ ret = NoCall("__init__", 0)

(* The persistence layer under every one of its operations, each parent id *)
(* drawn from the stored ids and one id that is not stored.                *)
Next ==
    \/ \E name \in Names :
           /\ NameStored(db, name) \/ Len(db.projects) < MaxProjects
           /\ NameStored(db, name) => sessions < MaxLeaked
           /\ CreateProject(name, today, today + 210)
    \/ \E project_id \in 1 .. Len(db.projects) + 1 :
           /\ Len(db.phases) < MaxRows
           /\ AddPhase(project_id, "Phase", Some(today), None)
    \/ \E phase_id \in 1 .. Len(db.phases) + 1 :
           /\ Len(db.epics) < MaxRows
           /\ AddEpic(phase_id, "Epic", "Planned")
    \/ \E epic_id \in 1 .. Len(db.epics) + 1 :
           /\ Len(db.tasks) < MaxRows
           /\ \E status \in {"To Do", "Done"} :
                  AddTask(epic_id, "Task", "Medium", status, None)
    \/ \E task_id \in 1 .. Len(db.tasks) + 1 :
           \E new_status \in {"In Progress", "Done"} :
               UpdateTaskStatus(task_id, new_status)
    \/ \E project_id \in 1 .. Len(db.projects) + 1 :
           /\ Len(db.daily_logs) < MaxRows
           /\ \E log_date \in {None, Some(0)} :
                  AddDailyLog(project_id, "notes", log_date)
    \/ Tick

Spec == Init /\ [][Next]_vars

----------------------------------------------------------------------------
(* _create_new_project (main_app.py).  name is the text of the name field  *)
(* after strip().  The handler makes two calls of the persistence layer,   *)
(* get_project_by_name and create_project; a second process working on the *)
(* same database file may run between them, so the handler is also given   *)
(* in two steps, pc and pending holding its place and its inputs.          *)

(* Lines 343-357: the empty-name check and the pre-check of the name. *)
create_new_project_check(a, d, name, start_date, end_date_target) ==
    IF name = "" \/ get_project_by_name(d, name) # None
    THEN a
    ELSE [a EXCEPT !.pc = "create",
                   !.pending = Some([name |-> name, start_date |-> start_date,
                                     end_date_target |-> end_date_target])]

(* Lines 359-365: create_project, then the refresh of the combos; an       *)
(* exception is caught and shown.                                          *)
create_new_project_insert(a, d) ==
    LET q == a.pending[1]
        r == create_project(d, q.name, q.start_date, q.end_date_target)
        idle == [a EXCEPT !.pc = "idle", !.pending = None]
    IN [app |-> IF r.error = "" THEN populate_project_combos(idle, r.db) ELSE idle,
        r |-> r, args |-> q]

CreateNewProjectCheck(p, name, start_date, end_date_target) ==
    /\ app[p].pc = "idle"
    /\ app' = [app EXCEPT ![p] = create_new_project_check(
                                     @, db, name, start_date, end_date_target)]
    /\ ret' = IF name = ""
              THEN NoCall("_create_new_project", p)
              ELSE Ret("_create_new_project", p, "get_project_by_name",
                       [name |-> name],
                       Result(db, get_project_by_name(db, name), "", TRUE))
    /\ UNCHANGED <<db, today, config, sessions>>

CreateNewProjectInsert(p) ==
    /\ app[p].pc = "create"
    /\ LET s == create_new_project_insert(app[p], db)
       IN /\ db' = s.r.db
          /\ sessions' = sessions + Leak(s.r)
          /\ app' = [app EXCEPT ![p] = s.app]
          /\ ret' = Ret("_create_new_project", p, "create_project", s.args, s.r)
    /\ UNCHANGED <<today, config>>

(* The creation of projects by direct calls of create_project, on         *)
(* different days and with different target dates.                         *)
NextCreate ==
    \/ \E name \in Names, offset \in TargetOffsets :
           /\ NameStored(db, name) \/ Len(db.projects) < MaxProjects
           /\ NameStored(db, name) => sessions < MaxLeaked
           /\ CreateProject(name, today, today + offset)
    \/ Tick

SpecCreate == Init /\ [][NextCreate]_vars

(* Two processes running _create_new_project on the same database file,    *)
(* each between its two calls of the persistence layer at any time.        *)
NextRace ==
    \/ \E p \in Procs, name \in Names \cup {""} :
           CreateNewProjectCheck(p, name, today, today + 210)
    \/ \E p \in Procs :
           /\ app[p].pc = "create"
           /\ LET name == app[p].pending[1].name
              IN /\ NameStored(db, name) \/ Len(db.projects) < MaxProjects
                 /\ NameStored(db, name) => sessions < MaxLeaked
           /\ CreateNewProjectInsert(p)

SpecRace == Init /\ [][NextRace]_vars

(* _create_new_project as one handler of one process. *)
CreateNewProject(p, name, start_date, end_date_target) ==
    /\ app[p].pc = "idle"
    /\ LET checked == create_new_project_check(app[p], db, name, start_date,
                                               end_date_target)
           s == create_new_project_insert(checked, db)
       IN IF checked.pc = "create"
          THEN /\ db' = s.r.db
               /\ sessions' = sessions + Leak(s.r)
               /\ app' = [app EXCEPT ![p] = s.app]
               /\ ret' = Ret("_create_new_project", p, "create_project",
                             s.args, s.r)
          ELSE /\ ret' = IF name = ""
                         THEN NoCall("_create_new_project", p)
                         ELSE Ret("_create_new_project", p, "get_project_by_name",
                                  [name |-> name],
                                  Result(db, get_project_by_name(db, name), "", TRUE))
               /\ UNCHANGED <<db, sessions, app>>
    /\ UNCHANGED <<today, config>>

(* The user picks item index of the project combo: currentIndexChanged     *)
(* runs _on_project_selected.                                              *)
SelectProject(p, index) ==
    /\ app[p].pc = "idle"
    /\ app[p].combo_enabled
    /\ index \in 0 .. Len(app[p].project_combo) - 1
    /\ index # app[p].combo_index
    /\ app' = [app EXCEPT ![p] = on_project_selected(
                                     [@ EXCEPT !.combo_index = index], db)]
    /\ ret' = NoCall("_on_project_selected", p)
    /\ UNCHANGED <<db, today, config, sessions>>

----------------------------------------------------------------------------
(* The plan template: _add_initial_project_plan (main_app.py; the copy in  *)
(* utils/main_helper.py makes the same calls).                             *)

(* timedelta(weeks=n) taken for n days. *)
Weeks_as_days(n) == n

Weeks(n) == 7 * n
Days(n) == n

(* The calls of lines 484-578 in order.  var is the variable the result is *)
(* bound to, parent the variable whose id is the call's first argument.    *)
PlanCalls(project, ssa1_name_str, sa2_name_str, offshore_pm_name_str) == <<
    [op |-> "add_phase",
     var |-> "phase1",
     line |-> 484,
     parent |-> "project",
     name |-> "Phase 1: Inception & Detailed Planning (Weeks 1-4)",
     description |-> "Establish foundational understanding, detailed requirements, and initial design for key modules.",
     start_date |-> Some(project.start_date),
     end_date |-> Some(project.start_date + Weeks(4))],
    [op |-> "add_epic",
     var |-> "epic1_1",
     line |-> 491,
     parent |-> "phase1",
     name |-> "Requirements Gathering & Reverse Engineering",
     description |-> "Gather business & technical requirements, reverse engineer vendor product."],
    [op |-> "add_task",
     var |-> "",
     line |-> 496,
     parent |-> "epic1_1",
     name |-> "Client Kick-off & Expectations Alignment",
     description |-> "Formal kick-off with client to align on scope and communication.",
     assigned_to |-> ssa1_name_str,
     priority |-> "High",
     due_date |-> Some(project.start_date + Days(3))],
    [op |-> "add_task",
     var |-> "",
     line |-> 504,
     parent |-> "epic1_1",
     name |-> "Vendor Product Architecture Deep Dive",
     description |-> "Dissect existing on-prem MDM product for architecture, APIs, and customization points.",
     assigned_to |-> ssa1_name_str \o ", " \o sa2_name_str,
     priority |-> "High",
     due_date |-> Some(project.start_date + Days(7))],
    [op |-> "add_task",
     var |-> "",
     line |-> 512,
     parent |-> "epic1_1",
     name |-> "Detailed MDM Customization Requirements",
     description |-> "Workshops with client BAs for data quality, validations, UI, RBAC.",
     assigned_to |-> ssa1_name_str,
     priority |-> "High",
     due_date |-> Some(project.start_date + Days(14))],
    [op |-> "add_task",
     var |-> "",
     line |-> 520,
     parent |-> "epic1_1",
     name |-> "Ingress Source System Data Mapping (Initial 5)",
     description |-> "Detailed data mapping for the first 5 critical ingress sources.",
     assigned_to |-> sa2_name_str,
     priority |-> "High",
     due_date |-> Some(project.start_date + Days(14))],
    [op |-> "add_epic",
     var |-> "epic1_2",
     line |-> 529,
     parent |-> "phase1",
     name |-> "Technical Design & Initial POCs",
     description |-> "Develop overall architectural design and conduct critical proof of concepts."],
    [op |-> "add_task",
     var |-> "",
     line |-> 530,
     parent |-> "epic1_2",
     name |-> "Overall ETL/MDM Solution Architecture",
     description |-> "Design the end-to-end architecture for Ingress, MDM, and Egress.",
     assigned_to |-> ssa1_name_str,
     priority |-> "High",
     due_date |-> Some(project.start_date + Days(21))],
    [op |-> "add_task",
     var |-> "",
     line |-> 531,
     parent |-> "epic1_2",
     name |-> "MDM Customization Framework POC",
     description |-> "Prove out a customization approach for the vendor MDM product.",
     assigned_to |-> sa2_name_str,
     priority |-> "High",
     due_date |-> Some(project.start_date + Days(21))],
    [op |-> "add_task",
     var |-> "",
     line |-> 532,
     parent |-> "epic1_2",
     name |-> "Ingress Data Pipeline POC (Connector)",
     description |-> "Validate connectivity and initial data extraction from a complex source.",
     assigned_to |-> sa2_name_str,
     priority |-> "Medium",
     due_date |-> Some(project.start_date + Days(28))],
    [op |-> "add_task",
     var |-> "",
     line |-> 533,
     parent |-> "epic1_2",
     name |-> "Offshore Team Onboarding & Environment Setup",
     description |-> "Ensure offshore team has access, tools, and dev environments ready.",
     assigned_to |-> offshore_pm_name_str,
     priority |-> "High",
     due_date |-> Some(project.start_date + Days(28))],
    [op |-> "add_phase",
     var |-> "phase2",
     line |-> 537,
     parent |-> "project",
     name |-> "Phase 2: Iterative Development & Delivery (Months 2-6)",
     description |-> "Develop, unit test, and deliver functional modules in iterations.",
     start_date |-> Some(project.start_date + Weeks(4)),
     end_date |-> Some(project.start_date + Weeks(4 + 5 * 4))],
    [op |-> "add_epic",
     var |-> "epic2_1",
     line |-> 544,
     parent |-> "phase2",
     name |-> "Ingress Module Development",
     description |-> "Develop data pipelines for 20 source systems into MDM."],
    [op |-> "add_task",
     var |-> "",
     line |-> 545,
     parent |-> "epic2_1",
     name |-> "Ingress Source 1-5 Development & Unit Test",
     description |-> "Develop and unit test pipelines for first 5 critical sources.",
     assigned_to |-> offshore_pm_name_str \o " (Offshore Team)",
     priority |-> "High",
     due_date |-> None],
    [op |-> "add_task",
     var |-> "",
     line |-> 546,
     parent |-> "epic2_1",
     name |-> "Ingress Source 6-10 Development & Unit Test",
     description |-> "Develop and unit test pipelines for next 5 critical sources.",
     assigned_to |-> offshore_pm_name_str \o " (Offshore Team)",
     priority |-> "Medium",
     due_date |-> None],
    [op |-> "add_task",
     var |-> "",
     line |-> 547,
     parent |-> "epic2_1",
     name |-> "Ingress Source 11-20 Development & Unit Test",
     description |-> "Develop and unit test pipelines for remaining sources.",
     assigned_to |-> offshore_pm_name_str \o " (Offshore Team)",
     priority |-> "Low",
     due_date |-> None],
    [op |-> "add_task",
     var |-> "",
     line |-> 548,
     parent |-> "epic2_1",
     name |-> "Ingress Data Quality & Error Handling",
     description |-> "Implement robust data quality checks and error logging for all pipelines.",
     assigned_to |-> sa2_name_str,
     priority |-> "High",
     due_date |-> None],
    [op |-> "add_epic",
     var |-> "epic2_2",
     line |-> 550,
     parent |-> "phase2",
     name |-> "Egress Module Development",
     description |-> "Pull data from CRM, identify deltas, and write to CSV files."],
    [op |-> "add_task",
     var |-> "",
     line |-> 551,
     parent |-> "epic2_2",
     name |-> "Egress CRM Data Extraction Design",
     description |-> "Design efficient extraction of CRM data.",
     assigned_to |-> sa2_name_str,
     priority |-> "High",
     due_date |-> None],
    [op |-> "add_task",
     var |-> "",
     line |-> 552,
     parent |-> "epic2_2",
     name |-> "Egress Delta Logic Implementation",
     description |-> "Implement logic to identify and process data deltas.",
     assigned_to |-> offshore_pm_name_str \o " (Offshore Team)",
     priority |-> "High",
     due_date |-> None],
    [op |-> "add_task",
     var |-> "",
     line |-> 553,
     parent |-> "epic2_2",
     name |-> "Egress CSV File Generation",
     description |-> "Develop module to generate formatted CSV files.",
     assigned_to |-> offshore_pm_name_str \o " (Offshore Team)",
     priority |-> "Medium",
     due_date |-> None],
    [op |-> "add_epic",
     var |-> "epic2_3",
     line |-> 555,
     parent |-> "phase2",
     name |-> "MDM Customization & Configuration",
     description |-> "Implement Data Quality, Validations, UI, RBAC based on requirements."],
    [op |-> "add_task",
     var |-> "",
     line |-> 556,
     parent |-> "epic2_3",
     name |-> "MDM Data Quality Rules Implementation",
     description |-> "Implement core data quality rules within MDM.",
     assigned_to |-> offshore_pm_name_str \o " (Offshore Team)",
     priority |-> "High",
     due_date |-> None],
    [op |-> "add_task",
     var |-> "",
     line |-> 557,
     parent |-> "epic2_3",
     name |-> "MDM Data Validation Logic",
     description |-> "Implement custom data validation rules.",
     assigned_to |-> offshore_pm_name_str \o " (Offshore Team)",
     priority |-> "High",
     due_date |-> None],
    [op |-> "add_task",
     var |-> "",
     line |-> 558,
     parent |-> "epic2_3",
     name |-> "MDM UI Customization (Key Screens)",
     description |-> "Customize essential UI screens for data stewardship.",
     assigned_to |-> offshore_pm_name_str \o " (Offshore Team)",
     priority |-> "Medium",
     due_date |-> None],
    [op |-> "add_task",
     var |-> "",
     line |-> 559,
     parent |-> "epic2_3",
     name |-> "MDM RBAC Configuration & Testing",
     description |-> "Configure Role-Based Access Control and test permissions.",
     assigned_to |-> sa2_name_str,
     priority |-> "High",
     due_date |-> None],
    [op |-> "add_task",
     var |-> "",
     line |-> 560,
     parent |-> "epic2_3",
     name |-> "MDM Workflow Customization (if applicable)",
     description |-> "Customize data approval/stewardship workflows.",
     assigned_to |-> offshore_pm_name_str \o " (Offshore Team)",
     priority |-> "Medium",
     due_date |-> None],
    [op |-> "add_phase",
     var |-> "phase3",
     line |-> 563,
     parent |-> "project",
     name |-> "Phase 3: UAT & Deployment Readiness (Month 7)",
     description |-> "Achieve client sign-off on functionality, prepare for production deployment.",
     start_date |-> Some(project.start_date + Weeks(4 + 5 * 4)),
     end_date |-> Some(project.end_date_target)],
    [op |-> "add_epic",
     var |-> "epic3_1",
     line |-> 570,
     parent |-> "phase3",
     name |-> "User Acceptance Testing (UAT)",
     description |-> "Client-led testing and defect resolution."],
    [op |-> "add_task",
     var |-> "",
     line |-> 571,
     parent |-> "epic3_1",
     name |-> "UAT Test Case Review & Preparation",
     description |-> "Work with client BAs to finalize UAT test cases.",
     assigned_to |-> ssa1_name_str,
     priority |-> "High",
     due_date |-> None],
    [op |-> "add_task",
     var |-> "",
     line |-> 572,
     parent |-> "epic3_1",
     name |-> "UAT Environment Setup & Data Load",
     description |-> "Prepare and load data into UAT environment.",
     assigned_to |-> sa2_name_str,
     priority |-> "High",
     due_date |-> None],
    [op |-> "add_task",
     var |-> "",
     line |-> 573,
     parent |-> "epic3_1",
     name |-> "UAT Defect Triage & Resolution Cycles",
     description |-> "Manage, prioritize, and resolve defects found during UAT.",
     assigned_to |-> offshore_pm_name_str \o " (Offshore Team), " \o ssa1_name_str,
     priority |-> "High",
     due_date |-> None],
    [op |-> "add_epic",
     var |-> "epic3_2",
     line |-> 575,
     parent |-> "phase3",
     name |-> "Deployment Readiness & Go-Live",
     description |-> "Final preparations for production deployment."],
    [op |-> "add_task",
     var |-> "",
     line |-> 576,
     parent |-> "epic3_2",
     name |-> "Production Deployment Plan",
     description |-> "Develop detailed plan including rollback strategy.",
     assigned_to |-> ssa1_name_str,
     priority |-> "High",
     due_date |-> None],
    [op |-> "add_task",
     var |-> "",
     line |-> 577,
     parent |-> "epic3_2",
     name |-> "Pre-Go-Live System Health Checks",
     description |-> "Perform final checks on performance, data integrity.",
     assigned_to |-> sa2_name_str,
     priority |-> "High",
     due_date |-> None],
    [op |-> "add_task",
     var |-> "",
     line |-> 578,
     parent |-> "epic3_2",
     name |-> "Post-Go-Live Support Plan",
     description |-> "Define support structure for immediate post-deployment.",
     assigned_to |-> ssa1_name_str,
     priority |-> "High",
     due_date |-> None]
    >>

(* The placeholder also for a name that is the empty string. *)
name_or_truthy(name, placeholder) ==
    IF name # None /\ name[1] # "" THEN name[1] ELSE placeholder

(* The value of name if it is not None, else the placeholder. *)
name_or(name, placeholder) == IF name # None THEN name[1] ELSE placeholder

(* The template adding its phases to the first stored project. *)
plan_call_first_project(d, env, c) ==
    CASE c.op = "add_phase" ->
             add_phase(d, d.projects[1].id, c.name, c.description,
                       c.start_date, c.end_date)
      [] c.op = "add_epic" ->
             add_epic(d, env[c.parent], c.name, c.description, "Planned")
      [] c.op = "add_task" ->
             add_task(d, env[c.parent], c.name, c.description, c.assigned_to,
                      c.priority, "To Do", None, None, c.due_date)

(* One call of the template, with the defaults of the parameters it omits. *)
plan_call(d, env, c) ==
    CASE c.op = "add_phase" ->
             add_phase(d, env[c.parent], c.name, c.description, c.start_date,
                       c.end_date)
      [] c.op = "add_epic" ->
             add_epic(d, env[c.parent], c.name, c.description, "Planned")
      [] c.op = "add_task" ->
             add_task(d, env[c.parent], c.name, c.description, c.assigned_to,
                      c.priority, "To Do", None, None, c.due_date)

(* The number of calls of the template. *)
PlanLength == Len(PlanCalls([start_date |-> 0, end_date_target |-> 0], "", "", ""))

(* The calls i .. n of calls, from database d with the variables env; a    *)
(* call that raises ends the run (the handler's except clause).  Call      *)
(* number fault, if any, raises OperationalError out of session.commit()   *)
(* (the database is locked, the disk is full): its row is not inserted.    *)
(* Yields the database, the number of calls that returned and the last     *)
(* operation called.                                                       *)
RECURSIVE run_calls(_, _, _, _, _, _)

(* What follows call i of the run, r being what the call returned. *)
after_call(r, env, calls, i, n, fault) ==
    IF r.error # ""
    THEN [db |-> r.db, calls |-> i - 1, error |-> r.error, op |-> calls[i].op]
    ELSE run_calls(r.db, (calls[i].var :> r.value[1].id) @@ env, calls,
                   i + 1, n, fault)

run_calls(d, env, calls, i, n, fault) ==
    IF i > n
    THEN [db |-> d, calls |-> n, error |-> "", op |-> calls[n].op]
    ELSE after_call(IF i = fault
                    THEN Result(d, None, "OperationalError", FALSE)
                    ELSE plan_call(d, env, calls[i]),
                    env, calls, i, n, fault)

(* The name to use for what get_property returned, and the exception it    *)
(* raised.                                                                 *)
name_of(r, placeholder) ==
    [name |-> name_or(r.value, placeholder), error |-> r.error]

(* The configured name of a team member (lines 473-480). *)
team_member(cfg, key, placeholder) ==
    name_of(get_property(cfg, "TEAM_MEMBERS", key), placeholder)

(* The exception that ends the reading of the three names, if any. *)
raised(ssa1_name, sa2_name, offshore_pm_name) ==
    IF ssa1_name.error # "" THEN ssa1_name.error
    ELSE IF sa2_name.error # "" THEN sa2_name.error
    ELSE offshore_pm_name.error

(* The template with its last call left out. *)
make_plan_short(d, project, fault, ssa1_name, sa2_name, offshore_pm_name) ==
    IF raised(ssa1_name, sa2_name, offshore_pm_name) # ""
    THEN [db |-> d, project |-> project, calls |-> 0,
          error |-> raised(ssa1_name, sa2_name, offshore_pm_name),
          op |-> "get_property"]
    ELSE [project |-> project]
         @@ run_calls(d, "project" :> project[1].id,
                      PlanCalls(project[1], ssa1_name.name, sa2_name.name,
                                offshore_pm_name.name),
                      1, PlanLength - 1, fault)

(* The template undoing the inserts of a run that raises. *)
make_plan_rollback(d, project, fault, ssa1_name, sa2_name, offshore_pm_name) ==
    IF raised(ssa1_name, sa2_name, offshore_pm_name) # ""
    THEN [db |-> d, project |-> project, calls |-> 0,
          error |-> raised(ssa1_name, sa2_name, offshore_pm_name),
          op |-> "get_property"]
    ELSE LET run == run_calls(d, "project" :> project[1].id,
                              PlanCalls(project[1], ssa1_name.name,
                                        sa2_name.name, offshore_pm_name.name),
                              1, PlanLength, fault)
         IN [db |-> IF run.error # "" THEN d ELSE run.db,
             project |-> project, calls |-> run.calls, error |-> run.error,
             op |-> run.op]

(* The body of the try block once the three names are read (lines          *)
(* 482-584): the template's calls are made in order; the except clause     *)
(* reports the first exception.  calls is the number of calls of the       *)
(* template that returned.                                                 *)
make_plan(d, project, fault, ssa1_name, sa2_name, offshore_pm_name) ==
    IF raised(ssa1_name, sa2_name, offshore_pm_name) # ""
    THEN [db |-> d, project |-> project, calls |-> 0,
          error |-> raised(ssa1_name, sa2_name, offshore_pm_name),
          op |-> "get_property"]
    ELSE [project |-> project]
         @@ run_calls(d, "project" :> project[1].id,
                      PlanCalls(project[1], ssa1_name.name, sa2_name.name,
                                offshore_pm_name.name),
                      1, PlanLength, fault)

(* The try block of the handler (lines 472-584): the three names are read  *)
(* from the configuration, then the template's calls are made.             *)
try_plan(d, cfg, project, fault) ==
    make_plan(d, project, fault,
              team_member(cfg, "SSA1_Name", "SSA1"),
              team_member(cfg, "SA2_Name", "SA2"),
              team_member(cfg, "Offshore_PM_Name", "Offshore PM"))

(* The handler refusing a project that already has phases. *)
add_initial_project_plan_once(a, d, cfg, reply, fault) ==
    IF a.current_project_id = None
    THEN [db |-> d, project |-> None, calls |-> 0, error |-> "", op |-> ""]
    ELSE LET project == get_project_by_name(
                            d, a.project_combo[a.combo_index + 1].text)
         IN IF \/ project = None
               \/ reply = "No"
               \/ \E i \in DOMAIN d.phases :
                      d.phases[i].project_id = project[1].id
            THEN [db |-> d, project |-> project, calls |-> 0, error |-> "",
                  op |-> "get_project_by_name"]
            ELSE try_plan(d, cfg, project, fault)

(* The handler: its guards (lines 457-470), then the try block. *)
add_initial_project_plan(a, d, cfg, reply, fault) ==
    IF a.current_project_id = None
    THEN [db |-> d, project |-> None, calls |-> 0, error |-> "", op |-> ""]
    ELSE LET project == get_project_by_name(
                            d, a.project_combo[a.combo_index + 1].text)
         IN IF project = None \/ reply = "No"
            THEN [db |-> d, project |-> project, calls |-> 0, error |-> "",
                  op |-> "get_project_by_name"]
            ELSE try_plan(d, cfg, project, fault)

AddInitialProjectPlan(p, reply, fault) ==
    /\ app[p].pc = "idle"
    /\ \E s \in {add_initial_project_plan(app[p], db, config, reply, fault)} :
          /\ db' = s.db
          /\ sessions' = sessions + (IF s.error = "OperationalError" THEN 1 ELSE 0)
          /\ ret' = [handler |-> "_add_initial_project_plan", proc |-> p,
                     op |-> s.op,
                     args |-> [project |-> s.project, reply |-> reply,
                               calls |-> s.calls, fault |-> fault],
                     error |-> s.error,
                     value |-> IF s.error # "" THEN None
                               ELSE IF s.calls > 0
                               THEN Some(s.db.tasks[Len(s.db.tasks)])
                               ELSE s.project]
          /\ app' = IF s.error = "" /\ s.calls > 0
                    THEN [app EXCEPT ![p] = load_project_plan_tree(@, s.db)]
                    ELSE app
    /\ UNCHANGED <<today, config>>

InitPlan ==
    /\ db = EmptyDb
    /\ today = 0
    /\ config \in {DefaultConfig, BareConfig}
    /\ sessions = 0
    /\ app = [p \in Procs |-> NewApp(EmptyDb)]
    /\ ret = NoCall("__init__", 0)

(* One window: projects are created and selected, and the plan template is *)
(* run on the selected project.                                            *)
NextPlan ==
    \/ \E name \in PlanNames \cup {""} :
           /\ Len(db.projects) < MaxProjects
           /\ \E start \in StartOffsets, offset \in TargetOffsets :
                  CreateNewProject(MainProc, name, today + start,
                                   today + start + offset)
    \/ \E index \in 0 .. MaxProjects : SelectProject(MainProc, index)
    \/ \E reply \in {"Yes", "No"} :
           /\ Len(db.phases) < 3 * MaxPlanRuns
           /\ AddInitialProjectPlan(MainProc, reply, 0)

SpecPlan == InitPlan /\ [][NextPlan]_vars

----------------------------------------------------------------------------
(* Tasks and their status: epics, the tasks added under them (or under an  *)
(* id that is not stored), status updates of stored and of missing task    *)
(* ids, and the passing of days.                                           *)

NextTasks ==
    \/ \E phase_id \in 1 .. Len(db.phases) + 1 :
           /\ Len(db.epics) < MaxRows
           /\ AddEpic(phase_id, "Epic", "Planned")
    \/ \E epic_id \in 1 .. Len(db.epics) + 1 :
           /\ Len(db.tasks) < MaxTasks
           /\ \E status \in {"To Do", "Done"} :
                  AddTask(epic_id, "Task", "Medium", status, None)
    \/ \E task_id \in 1 .. Len(db.tasks) + 1 :
           \E new_status \in {"In Progress", "Done", "Blocked"} :
               UpdateTaskStatus(task_id, new_status)
    \/ Tick

SpecTasks == Init /\ [][NextTasks]_vars

----------------------------------------------------------------------------
(* Claims about the persistence layer.                                     *)

Orphan(table, column, parents) ==
    \E i \in DOMAIN table : table[i][column] \notin Ids(parents)

(* C3: add_phase, add_epic and add_task called with a parent id that       *)
(* references no stored parent fail with an error and insert no row.       *)
C3_MissingParentRejected ==
    [][(\/ /\ ret'.op = "add_phase"
           /\ ret'.args.project_id \notin Ids(db.projects)
        \/ /\ ret'.op = "add_epic"
           /\ ret'.args.phase_id \notin Ids(db.phases)
        \/ /\ ret'.op = "add_task"
           /\ ret'.args.epic_id \notin Ids(db.epics))
       => (ret'.error # "" /\ db' = db)]_vars

(* C4: after any sequence of persistence operations every stored phase     *)
(* references a stored project, every epic a stored phase, every task a    *)
(* stored epic and every subtask a stored task.                            *)
C4_NoOrphanRows ==
    /\ ~Orphan(db.phases, "project_id", db.projects)
    /\ ~Orphan(db.epics, "phase_id", db.phases)
    /\ ~Orphan(db.tasks, "epic_id", db.epics)
    /\ ~Orphan(db.subtasks, "task_id", db.tasks)

(* C5: update_task_status(task_id, "Done") on a stored task sets its       *)
(* status to "Done" and its completed_date to the current date, whatever   *)
(* they were before.                                                       *)
C5_DoneStampsToday ==
    [][(/\ ret'.op = "update_task_status"
        /\ ret'.args.new_status = "Done"
        /\ ret'.args.task_id \in Ids(db.tasks))
       => LET task == Row(db'.tasks, ret'.args.task_id)
          IN /\ task.status = "Done"
             /\ task.completed_date = Some(today)
             /\ ret'.value = Some(task)]_vars

(* A task marked Done on a later day than day 0. *)
C5_Witness ==
    /\ ret.op = "update_task_status"
    /\ ret.args.new_status = "Done"
    /\ ret.value # None
    /\ today > 0
    /\ ret.value[1].completed_date = Some(today)

(* C6: update_task_status with a status other than "Done" leaves the       *)
(* task's completed_date as it was, also for a task marked Done before.    *)
C6_OtherStatusKeepsCompletedDate ==
    [][(/\ ret'.op = "update_task_status"
        /\ ret'.args.new_status # "Done"
        /\ ret'.args.task_id \in Ids(db.tasks))
       => LET before == Row(db.tasks, ret'.args.task_id)
              after == Row(db'.tasks, ret'.args.task_id)
          IN /\ after.completed_date = before.completed_date
             /\ after.status = ret'.args.new_status]_vars

(* A task that was marked Done is moved to In Progress and keeps its date. *)
C6_Witness ==
    /\ ret.op = "update_task_status"
    /\ ret.args.new_status = "In Progress"
    /\ ret.value # None
    /\ ret.value[1].status = "In Progress"
    /\ ret.value[1].completed_date # None

(* C7: update_task_status with a task id that references no stored task    *)
(* returns None and changes no stored entity.                              *)
C7_MissingTaskUnchanged ==
    [][(/\ ret'.op = "update_task_status"
        /\ ret'.args.task_id \notin Ids(db.tasks))
       => (ret'.value = None /\ ret'.error = "" /\ db' = db)]_vars

(* A status update of a missing task id while tasks are stored. *)
C7_Witness ==
    /\ ret.op = "update_task_status"
    /\ ret.args.task_id \notin Ids(db.tasks)
    /\ ret.value = None
    /\ db.tasks # <<>>

----------------------------------------------------------------------------
(* Claims about the creation of projects.                                  *)

(* C1: create_project called with the name of a stored project fails with  *)
(* the duplicate-name error (IntegrityError on the UNIQUE name), and the   *)
(* stored projects, with every field of the existing one, are unchanged.   *)
C1_DuplicateNameRejected ==
    [][(/\ ret'.op = "create_project"
        /\ NameStored(db, ret'.args.name))
       => /\ ret'.error = "IntegrityError"
          /\ ret'.value = None
          /\ db'.projects = db.projects
          /\ db' = db]_vars

(* A rejected create_project whose dates differ from the stored project's. *)
C1_Witness ==
    /\ ret.op = "create_project"
    /\ ret.error = "IntegrityError"
    /\ \E i \in DOMAIN db.projects :
           /\ db.projects[i].name = ret.args.name
           /\ db.projects[i].start_date # ret.args.start_date
           /\ db.projects[i].end_date_target # ret.args.end_date_target

(* C2: no two stored projects have the same name, also when two callers    *)
(* interleave the pre-check and the insert; of two attempts with the same  *)
(* name the later insert is rejected by create_project itself.             *)
C2_UniqueNames ==
    /\ \A i, j \in DOMAIN db.projects :
           db.projects[i].name = db.projects[j].name => i = j
    /\ (ret.handler = "_create_new_project" /\ ret.op = "create_project")
           => \/ /\ ret.error = ""
                 /\ ret.value # None
                 /\ \E i \in DOMAIN db.projects : db.projects[i] = ret.value[1]
              \/ /\ ret.error = "IntegrityError"
                 /\ ret.value = None
                 /\ \E i \in DOMAIN db.projects :
                        /\ db.projects[i].name = ret.args.name
                        /\ \A p \in Procs : app[p].pending = None
                               => app[p].pc = "idle"

(* Both processes passed the pre-check with one name; the second insert    *)
(* was rejected by create_project.                                         *)
C2_Witness ==
    /\ ret.handler = "_create_new_project"
    /\ ret.op = "create_project"
    /\ ret.error = "IntegrityError"
    /\ NameStored(db, ret.args.name)

----------------------------------------------------------------------------
(* Claims about the plan template.                                         *)

PhasesOf(d, project_id) ==
    {i \in DOMAIN d.phases : d.phases[i].project_id = project_id}

EpicsOf(d, phase_ids) ==
    {i \in DOMAIN d.epics : d.epics[i].phase_id \in phase_ids}

TasksOf(d, epic_ids) ==
    {i \in DOMAIN d.tasks : d.tasks[i].epic_id \in epic_ids}

PhaseIdsOf(d, project_id) == {d.phases[i].id : i \in PhasesOf(d, project_id)}

EpicIdsOf(d, phase_ids) == {d.epics[i].id : i \in EpicsOf(d, phase_ids)}

(* The due dates of the tasks under the phase, in the order of creation. *)
DueDatesOf(d, phase_id) ==
    LET under == SelectSeq(d.tasks,
                           LAMBDA t : t.epic_id \in EpicIdsOf(d, {phase_id}))
    IN [i \in DOMAIN under |-> under[i].due_date]

(* A step in which the template ran to completion. *)
PlanCompleted(r) ==
    /\ r.handler = "_add_initial_project_plan"
    /\ r.args.calls > 0
    /\ r.error = ""

(* The k-th phase the run of this step created. *)
CreatedPhase(k) == db'.phases[Len(db.phases) + k]

C9_FirstPhase ==
    [][PlanCompleted(ret')
       => LET start == Row(db.projects, ret'.args.project[1].id).start_date
              phase == CreatedPhase(1)
          IN /\ phase.project_id = ret'.args.project[1].id
             /\ phase.start_date = Some(start)
             /\ phase.end_date = Some(start + 28)
             /\ Cardinality(EpicsOf(db', {phase.id})) = 2
             /\ DueDatesOf(db', phase.id) =
                    <<Some(start + 3), Some(start + 7), Some(start + 14),
                      Some(start + 14), Some(start + 21), Some(start + 21),
                      Some(start + 28), Some(start + 28)>>]_vars

(* A completed run on a project that does not start on day 0. *)
C9_Witness ==
    /\ PlanCompleted(ret)
    /\ ret.args.project[1].start_date > 0
    /\ \E i \in DOMAIN db.tasks :
           db.tasks[i].due_date = Some(ret.args.project[1].start_date + 3)

C11_ThirdPhase ==
    [][PlanCompleted(ret')
       => LET project == Row(db.projects, ret'.args.project[1].id)
              phase == CreatedPhase(3)
              dues == DueDatesOf(db', phase.id)
          IN /\ phase.project_id = project.id
             /\ phase.start_date = Some(project.start_date + 24 * 7)
             /\ phase.end_date = Some(project.end_date_target)
             /\ Cardinality(EpicsOf(db', {phase.id})) = 2
             /\ Len(dues) = 6
             /\ \A i \in DOMAIN dues : dues[i] = None]_vars

(* A completed run on a project whose target end date lies before the     *)
(* start of the third phase.                                               *)
C11_Witness ==
    /\ PlanCompleted(ret)
    /\ ret.args.project[1].end_date_target
           < ret.args.project[1].start_date + 24 * 7
    /\ db.phases[Len(db.phases)].end_date
           = Some(ret.args.project[1].end_date_target)
    /\ Len(DueDatesOf(db, db.phases[Len(db.phases)].id)) = 6

IsPrefix(s, t) == Len(s) <= Len(t) /\ SubSeq(t, 1, Len(s)) = s

(* C12: the template is not idempotent.  A run on a project that holds the *)
(* skeleton of one earlier run is not rejected, leaves every stored phase, *)
(* epic and task as it was, and adds as many phases, epics and tasks to    *)
(* the project as the first run did.                                       *)
C12_SecondRunAppends ==
    [][(/\ ret'.handler = "_add_initial_project_plan"
        /\ ret'.args.reply = "Yes"
        /\ ret'.args.project # None
        /\ Cardinality(PhasesOf(db, ret'.args.project[1].id)) = 3)
       => LET id == ret'.args.project[1].id
              Phases(d) == PhaseIdsOf(d, id)
              Epics(d) == EpicIdsOf(d, Phases(d))
              Tasks(d) == TasksOf(d, Epics(d))
          IN /\ PlanCompleted(ret')
             /\ IsPrefix(db.phases, db'.phases)
             /\ IsPrefix(db.epics, db'.epics)
             /\ IsPrefix(db.tasks, db'.tasks)
             /\ db'.projects = db.projects
             /\ Cardinality(Phases(db')) = 2 * Cardinality(Phases(db))
             /\ Cardinality(Epics(db')) = 2 * Cardinality(Epics(db))
             /\ Cardinality(Tasks(db')) = 2 * Cardinality(Tasks(db))
             /\ Cardinality(Tasks(db)) = 26]_vars

(* The project of the last run holds two skeletons. *)
C12_Witness ==
    /\ PlanCompleted(ret)
    /\ Cardinality(PhasesOf(db, ret.args.project[1].id)) = 6
    /\ Cardinality(TasksOf(db, EpicIdsOf(db, PhaseIdsOf(db,
           ret.args.project[1].id)))) = 52

----------------------------------------------------------------------------
(* The template under every configuration of the three team members: each  *)
(* name is absent, empty or set, in a TEAM_MEMBERS section or with no such *)
(* section at all.                                                         *)

MaxNameRuns == 1

TeamKeys == {"ssa1_name", "sa2_name", "offshore_pm_name"}

TeamValues == {<<>>, <<"Ann">>}

NameConfigs ==
    {[sections |-> {}, options |-> <<>>]}
    \cup {[sections |-> {"TEAM_MEMBERS"},
           options |-> [o \in {<<"TEAM_MEMBERS", k>> : k \in keys} |-> value]
                       @@ BareConfig.options] :
              keys \in SUBSET TeamKeys, value \in TeamValues}
    \cup {DefaultConfig}

InitNames ==
    /\ db = EmptyDb
    /\ today = 0
    /\ config \in NameConfigs
    /\ sessions = 0
    /\ app = [p \in Procs |-> NewApp(EmptyDb)]
    /\ ret = NoCall("__init__", 0)

NextNames ==
    \/ \E name \in PlanNames :
           /\ Len(db.projects) < MaxProjects
           /\ CreateNewProject(MainProc, name, today, today + 30)
    \/ \E index \in 0 .. MaxProjects : SelectProject(MainProc, index)
    \/ \E reply \in {"Yes", "No"} :
           /\ Len(db.phases) < 3 * MaxNameRuns
           /\ AddInitialProjectPlan(MainProc, reply, 0)

SpecNames == InitNames /\ [][NextNames]_vars

(* The name the configuration holds for the team member, else the          *)
(* placeholder.                                                            *)
Configured(key, placeholder) ==
    IF <<"TEAM_MEMBERS", key>> \in DOMAIN config.options
    THEN Text(config.options[<<"TEAM_MEMBERS", key>>])
    ELSE placeholder

----------------------------------------------------------------------------
(* The template when one of its calls raises: any call of a run may fail.  *)
(* The template is run while fewer than MaxAbortPhases phases are stored.  *)

MaxAbortPhases == 1

(* The calls that fail: any call of the template. *)
FaultPoints == 1 .. PlanLength

NextAbort ==
    \/ \E name \in PlanNames :
           /\ Len(db.projects) < MaxProjects
           /\ CreateNewProject(MainProc, name, today, today + 30)
    \/ \E index \in 0 .. MaxProjects : SelectProject(MainProc, index)
    \/ \E reply \in {"Yes", "No"} :
           /\ Len(db.phases) < MaxAbortPhases
           /\ AddInitialProjectPlan(MainProc, reply, 0)
    \/ \E fault \in FaultPoints :
           /\ Len(db.phases) < MaxAbortPhases
           /\ sessions < MaxLeaked
           /\ AddInitialProjectPlan(MainProc, "Yes", fault)

SpecAbort == Init /\ [][NextAbort]_vars

(* The rows of all three tables of the plan. *)
PlanRows(d) == Len(d.phases) + Len(d.epics) + Len(d.tasks)

(* C14: when call k of a run of the template fails, no further call is     *)
(* made and the rows that calls 1 .. k-1 inserted stay stored: what is     *)
(* stored after the aborted run is a prefix of what the full run stores.   *)
C14_AbortedRunLeavesPrefix ==
    [][(/\ ret'.handler = "_add_initial_project_plan"
        /\ ret'.error = "OperationalError")
       => LET k == ret'.args.fault
              full == try_plan(db, config, ret'.args.project, 0).db
          IN /\ ret'.args.calls = k - 1
             /\ PlanRows(db') = PlanRows(db) + k - 1
             /\ IsPrefix(db.phases, db'.phases)
             /\ IsPrefix(db.epics, db'.epics)
             /\ IsPrefix(db.tasks, db'.tasks)
             /\ IsPrefix(db'.phases, full.phases)
             /\ IsPrefix(db'.epics, full.epics)
             /\ IsPrefix(db'.tasks, full.tasks)
             /\ PlanRows(full) = PlanRows(db) + PlanLength]_vars

(* A run that failed at a task of the second phase: the first phase is     *)
(* stored whole, the second in part.                                       *)
C14_Witness ==
    /\ ret.handler = "_add_initial_project_plan"
    /\ ret.error = "OperationalError"
    /\ ret.op = "add_task"
    /\ Len(db.phases) = 2
    /\ Len(db.epics) = 3
    /\ Len(db.tasks) = 8

----------------------------------------------------------------------------
(* The task list of a project: phases of two projects, epics and tasks     *)
(* under stored and under missing parents, and the list of every project.  *)

MaxListRows == 2

ListProjects == {1, 2}

NextTaskList ==
    \/ \E project_id \in ListProjects :
           /\ Len(db.phases) < MaxListRows
           /\ AddPhase(project_id, "Phase", None, None)
    \/ \E phase_id \in 1 .. Len(db.phases) + 1 :
           /\ Len(db.epics) < MaxListRows
           /\ AddEpic(phase_id, "Epic", "Planned")
    \/ \E epic_id \in 1 .. Len(db.epics) + 1 :
           /\ Len(db.tasks) < MaxListRows
           /\ AddTask(epic_id, "Task", "Medium", "To Do", None)
    \/ \E project_id \in ListProjects : GetTasksForProject(project_id)

SpecTaskList == Init /\ [][NextTaskList]_vars

(* The tasks whose epic's phase belongs to the project. *)
TasksOfProject(d, project_id) ==
    {t \in DOMAIN d.tasks :
         \E e \in DOMAIN d.epics, p \in DOMAIN d.phases :
             /\ d.tasks[t].epic_id = d.epics[e].id
             /\ d.epics[e].phase_id = d.phases[p].id
             /\ d.phases[p].project_id = project_id}

(* C15: get_tasks_for_project(p) returns only tasks whose epic's phase     *)
(* belongs to project p, and every such task exactly once.                 *)
C15_TasksOfTheProjectOnce ==
    (ret.op = "get_tasks_for_project")
        => /\ \A i \in DOMAIN ret.value :
                  \E t \in TasksOfProject(db, ret.args.project_id) :
                      db.tasks[t] = ret.value[i]
           /\ \A t \in TasksOfProject(db, ret.args.project_id) :
                  Cardinality({i \in DOMAIN ret.value :
                                   ret.value[i].id = db.tasks[t].id}) = 1

(* The list of project 1 holds one task while another task is stored under *)
(* a phase of project 2.                                                   *)
C15_Witness ==
    /\ ret.op = "get_tasks_for_project"
    /\ ret.args.project_id = 1
    /\ Len(ret.value) = 1
    /\ TasksOfProject(db, 2) # {}

----------------------------------------------------------------------------
(* The order of the task list: tasks with and without due dates and of all *)
(* three priorities under one epic of project 1.                           *)

MaxOrderTasks == 3

TaskInputs ==
    {<<"High", None>>, <<"Low", None>>,
     <<"High", Some(1)>>, <<"Low", Some(1)>>, <<"Medium", Some(1)>>,
     <<"Medium", Some(0)>>}

NextTaskOrder ==
    \/ /\ Len(db.phases) < MaxRows
       /\ AddPhase(1, "Phase", None, None)
    \/ /\ Len(db.epics) < MaxRows
       /\ AddEpic(1, "Epic", "Planned")
    \/ \E input \in TaskInputs :
           /\ Len(db.tasks) < MaxOrderTasks
           /\ AddTask(1, "Task", input[1], "To Do", input[2])
    \/ GetTasksForProject(1)

SpecTaskOrder == Init /\ [][NextTaskOrder]_vars

(* The place of a priority in descending string order. *)
DescendingPlace(priority) ==
    CHOOSE i \in 1 .. 3 : <<"Medium", "Low", "High">>[i] = priority

(* C16: the list get_tasks_for_project returns is sorted by due date       *)
(* ascending and, among tasks of equal due date, by priority in descending *)
(* string order ("Medium", then "Low", then "High"); the tasks without a   *)
(* due date form one block at one end of the list.                         *)
C16_SortedByDueDateThenPriority ==
    (ret.op = "get_tasks_for_project")
        => LET tasks == ret.value
               Dated(i) == tasks[i].due_date # None
           IN /\ \A i, j \in DOMAIN tasks :
                     (i < j /\ Dated(i) /\ Dated(j))
                         => tasks[i].due_date[1] <= tasks[j].due_date[1]
              /\ \A i, j \in DOMAIN tasks :
                     (i < j /\ tasks[i].due_date = tasks[j].due_date)
                         => DescendingPlace(tasks[i].priority)
                                <= DescendingPlace(tasks[j].priority)
              /\ \/ \A i, j \in DOMAIN tasks : (i < j /\ Dated(i)) => Dated(j)
                 \/ \A i, j \in DOMAIN tasks : (i < j /\ Dated(j)) => Dated(i)

(* A list of three tasks due the same day, one of each priority, added in  *)
(* another order.                                                          *)
C16_Witness ==
    /\ ret.op = "get_tasks_for_project"
    /\ Len(ret.value) = 3
    /\ \A i \in 1 .. 3 : ret.value[i].due_date = Some(1)
    /\ ret.value[1].priority = "Medium"
    /\ ret.value[2].priority = "Low"
    /\ ret.value[3].priority = "High"
    /\ db.tasks[1].priority = "High"

----------------------------------------------------------------------------
(* Daily logs: logs of two projects, added with and without a date on      *)
(* different days, and the list of every project.                          *)

MaxLogs == 3

MaxLogDay == 2

LogDates == {None} \cup {Some(day) : day \in 0 .. MaxLogDay}

NextLogs ==
    \/ \E project_id \in ListProjects, log_date \in LogDates :
           /\ Len(db.daily_logs) < MaxLogs
           /\ AddDailyLog(project_id, "log", log_date)
    \/ \E project_id \in ListProjects : GetDailyLogsForProject(project_id)
    \/ Tick

SpecLogs == Init /\ [][NextLogs]_vars

(* C17: get_daily_logs_for_project(p) returns exactly the daily logs whose *)
(* project is p, each of two consecutive logs no earlier than the next.    *)
C17_LogsOfTheProjectNewestFirst ==
    (ret.op = "get_daily_logs_for_project")
        => LET logs == ret.value
           IN /\ \A i \in DOMAIN logs :
                     /\ logs[i].project_id = ret.args.project_id
                     /\ \E k \in DOMAIN db.daily_logs :
                            db.daily_logs[k] = logs[i]
              /\ \A k \in DOMAIN db.daily_logs :
                     db.daily_logs[k].project_id = ret.args.project_id
                         => Cardinality({i \in DOMAIN logs :
                                logs[i].id = db.daily_logs[k].id}) = 1
              /\ \A i \in DOMAIN logs :
                     i < Len(logs) => logs[i].log_date >= logs[i + 1].log_date

(* The list of a project holds two logs, the later one added first, while  *)
(* the other project has a log too.                                        *)
C17_Witness ==
    /\ ret.op = "get_daily_logs_for_project"
    /\ Len(ret.value) = 2
    /\ ret.value[1].log_date > ret.value[2].log_date
    /\ ret.value[1].id > ret.value[2].id
    /\ Len(db.daily_logs) = 3

(* C18: add_daily_log stores the log_date it is given, whatever the date,  *)
(* and the current date only when it is given none.                        *)
C18_GivenLogDateStored ==
    [][(ret'.op = "add_daily_log")
       => LET log == db'.daily_logs[Len(db'.daily_logs)]
          IN /\ Len(db'.daily_logs) = Len(db.daily_logs) + 1
             /\ ret'.value = Some(log)
             /\ ret'.args.log_date # None
                    => log.log_date = ret'.args.log_date[1]
             /\ ret'.args.log_date = None => log.log_date = today]_vars

(* A log stored under day 0, given on a later day. *)
C18_Witness ==
    /\ ret.op = "add_daily_log"
    /\ ret.args.log_date = Some(0)
    /\ today > 0
    /\ ret.value[1].log_date = 0

----------------------------------------------------------------------------
(* The configuration store under set_property and get_property, from the   *)
(* default configuration: new and existing sections, the DEFAULT section   *)
(* and the section of the empty name, option names that differ in case     *)
(* only, and values with and without "%".                                  *)

MaxOptions == 1

ConfigSections == {"S", "", "DEFAULT"}

ConfigKeys == {"k", "K", "j"}

ConfigValues ==
    {PyStr(<<"a">>), PyStr(<<>>), PyInt(5), PyStr(<<"%", "%">>),
     PyStr(<<"a", "%">>), PyStr(<<"%", "(", "j", ")", "s">>)}

SetProperty(section, key, value) ==
    LET r == set_property(config, section, key, value)
    IN /\ config' = r.config
       /\ ret' = [handler |-> "api", proc |-> 0, op |-> "set_property",
                  args |-> [section |-> section, key |-> key, value |-> value],
                  error |-> r.error, value |-> None]
       /\ UNCHANGED <<db, today, sessions, app>>

GetProperty(section, key) ==
    LET r == get_property(config, section, key)
    IN /\ ret' = [handler |-> "api", proc |-> 0, op |-> "get_property",
                  args |-> [section |-> section, key |-> key],
                  error |-> r.error, value |-> r.value]
       /\ UNCHANGED <<db, today, config, sessions, app>>

(* The options stored beside those of the default configuration. *)
AddedOptions == (DOMAIN config.options) \ (DOMAIN DefaultConfig.options)

NextConfig ==
    \/ \E section \in ConfigSections, key \in ConfigKeys,
          value \in ConfigValues :
           /\ Cardinality(AddedOptions) < MaxOptions
           /\ SetProperty(section, key, value)
    \/ \E section \in ConfigSections \cup {"U", "TEAM_MEMBERS"},
          key \in ConfigKeys \cup {"SSA1_Name"} :
           GetProperty(section, key)

SpecConfig == Init /\ [][NextConfig]_vars

(* C19, as claimed: for every section, key and value, get_property(s, k)   *)
(* right after set_property(s, k, v) returns str(v) exactly, and a         *)
(* set_property on another (section, key) leaves what get_property(s, k)   *)
(* returns as it was.                                                      *)
C19_SetThenGetRoundTrip ==
    [][(ret'.op = "set_property")
       => /\ get_property(config', ret'.args.section, ret'.args.key)
                 = [value |-> Some(Text(str(ret'.args.value))), error |-> ""]
          /\ \A s \in ConfigSections, k \in ConfigKeys :
                 <<s, k>> # <<ret'.args.section, ret'.args.key>>
                     => get_property(config', s, k) = get_property(config, s, k)
      ]_vars

(* Neither the section nor the DEFAULT section holds the option. *)
OptionAbsent(section, key) ==
    \A s \in {section, default_section} :
        <<s, optionxform(key)>> \notin DOMAIN config.options

(* C20: get_property(section, key) returns None and raises nothing when    *)
(* the section does not exist and when the section exists and the key does *)
(* not; it never changes the configuration.                                *)
C20_AbsentPropertyIsNone ==
    [][(ret'.op = "get_property")
       => /\ config' = config
          /\ (\/ ret'.args.section \notin config.sections \cup {default_section}
              \/ OptionAbsent(ret'.args.section, ret'.args.key))
                 => (ret'.value = None /\ ret'.error = "")]_vars

(* None was returned for a key missing from a section that holds another   *)
(* key.                                                                    *)
C20_Witness ==
    /\ ret.op = "get_property"
    /\ ret.value = None
    /\ ret.args.section = "S"
    /\ ret.args.key = "k"
    /\ <<"S", "j">> \in DOMAIN config.options

----------------------------------------------------------------------------
(* The deletion of a project: projects are created and deleted, and rows   *)
(* are added to every other table under the stored parents.                *)

MaxDeleteRows == 4      \* rows stored in the tables other than projects

(* The ids to draw a parent from: the stored ones and the next one. *)
ParentIds(table) == Ids(table) \cup {NextId(table)}

ChildRows(d) ==
    Len(d.phases) + Len(d.epics) + Len(d.tasks) + Len(d.subtasks)
        + Len(d.daily_logs)

NextDelete ==
    \/ \E name \in PlanNames :
           /\ ~NameStored(db, name)
           /\ Len(db.projects) < MaxProjects
           /\ NextId(db.projects) <= MaxProjects
           /\ CreateProject(name, today, today + 210)
    \/ /\ ChildRows(db) < MaxDeleteRows
       /\ \/ \E project_id \in Ids(db.projects) :
                 /\ NextId(db.phases) <= MaxDeleteRows
                 /\ AddPhase(project_id, "Phase", Some(today), None)
          \/ \E phase_id \in Ids(db.phases) :
                 /\ NextId(db.epics) <= MaxDeleteRows
                 /\ AddEpic(phase_id, "Epic", "Planned")
          \/ \E epic_id \in Ids(db.epics) :
                 /\ NextId(db.tasks) <= MaxDeleteRows
                 /\ AddTask(epic_id, "Task", "Medium", "To Do", None)
          \/ \E task_id \in Ids(db.tasks) :
                 /\ NextId(db.subtasks) <= MaxDeleteRows
                 /\ AddSubTask(task_id, "SubTask", "To Do")
          \/ \E project_id \in Ids(db.projects) :
                 /\ NextId(db.daily_logs) <= MaxDeleteRows
                 /\ AddDailyLog(project_id, "notes", None)
    \/ \E project_id \in ParentIds(db.projects) : DeleteProject(project_id)

SpecDelete == Init /\ [][NextDelete]_vars

(* The row belongs to project p: its chain of parents leads to p. *)
PhaseIn(d, phase, p) == phase.project_id = p

EpicIn(d, epic, p) ==
    \E i \in DOMAIN d.phases :
        d.phases[i].id = epic.phase_id /\ PhaseIn(d, d.phases[i], p)

TaskIn(d, task, p) ==
    \E i \in DOMAIN d.epics :
        d.epics[i].id = task.epic_id /\ EpicIn(d, d.epics[i], p)

SubTaskIn(d, subtask, p) ==
    \E i \in DOMAIN d.tasks :
        d.tasks[i].id = subtask.task_id /\ TaskIn(d, d.tasks[i], p)

(* The rows of a table that stay when project p of database d goes. *)
Staying(d, table, In(_, _, _), p) ==
    LET stays(row) == ~In(d, row, p)
    IN SelectSeq(table, stays)

ProjectIs(d, project, p) == project.id = p

(* No row of the table that had its parent in d has lost it in e. *)
NoNewOrphan(table, column, before, after) ==
    \A i \in DOMAIN table :
        table[i][column] \in Ids(before) => table[i][column] \in Ids(after)

(* C21: deleting a stored project removes the project, its phases, their   *)
(* epics, their tasks, their subtasks and the project's daily logs; every  *)
(* other row stays as it was, and no row that had its parent loses it.     *)
C21_DeleteProjectCascades ==
    [][(/\ ret'.op = "delete_project"
        /\ ret'.args.project_id \in Ids(db.projects))
       => LET p == ret'.args.project_id
          IN /\ ret'.error = ""
             /\ db'.projects = Staying(db, db.projects, ProjectIs, p)
             /\ db'.phases = Staying(db, db.phases, PhaseIn, p)
             /\ db'.epics = Staying(db, db.epics, EpicIn, p)
             /\ db'.tasks = Staying(db, db.tasks, TaskIn, p)
             /\ db'.subtasks = Staying(db, db.subtasks, SubTaskIn, p)
             /\ db'.daily_logs = Staying(db, db.daily_logs, PhaseIn, p)
             /\ NoNewOrphan(db'.phases, "project_id", db.projects, db'.projects)
             /\ NoNewOrphan(db'.daily_logs, "project_id", db.projects,
                            db'.projects)
             /\ NoNewOrphan(db'.epics, "phase_id", db.phases, db'.phases)
             /\ NoNewOrphan(db'.tasks, "epic_id", db.epics, db'.epics)
             /\ NoNewOrphan(db'.subtasks, "task_id", db.tasks, db'.tasks)]_vars

(* A project deleted with three rows under it, while a phase of the other  *)
(* project stays.                                                          *)
C21_Witness ==
    /\ ret.op = "delete_project"
    /\ ret.error = ""
    /\ ret.value # None
    /\ ret.args.removed >= 4
    /\ db.projects # <<>>
    /\ \E i \in DOMAIN db.phases : db.phases[i].project_id \in Ids(db.projects)


(* The column of the parent's id in the rows an operation adds. *)
ParentColumn ==
    [add_phase |-> "project_id", add_daily_log |-> "project_id",
     add_epic |-> "phase_id", add_task |-> "epic_id",
     add_subtask |-> "task_id"]

(* The table an operation adds to. *)
TableOf(d, op) ==
    CASE op = "add_phase" -> d.phases
      [] op = "add_daily_log" -> d.daily_logs
      [] op = "add_epic" -> d.epics
      [] op = "add_task" -> d.tasks
      [] op = "add_subtask" -> d.subtasks

ParentsIn(table, column) == {table[i][column] : i \in DOMAIN table}

(* The collection of the row's parent is the one before with the row at    *)
(* its end, and the collection of every other parent is the one before.    *)
AppendedToParent(before, after, column, row) ==
    /\ children(after, column, row[column])
           = Append(children(before, column, row[column]), row)
    /\ \A q \in ParentsIn(after, column) \ {row[column]} :
           children(after, column, q) = children(before, column, q)

(* C22: an add operation puts the new child at the end of the collection   *)
(* of the parent it was inserted under and changes the collection of no    *)
(* other parent, so that every collection holds the children inserted      *)
(* under its parent, and only them, in the order of insertion.             *)
C22_ChildrenInInsertionOrder ==
    [][(ret'.op \in DOMAIN ParentColumn /\ ret'.error = "")
       => AppendedToParent(TableOf(db, ret'.op), TableOf(db', ret'.op),
                           ParentColumn[ret'.op], ret'.value[1])]_vars

(* A second phase added to a project after a phase of another project. *)
C22_Witness ==
    /\ ret.op = "add_phase"
    /\ ret.error = ""
    /\ Len(Project_phases(db, ret.args.project_id)) >= 2
    /\ \E i \in DOMAIN db.phases :
           /\ i < Len(db.phases)
           /\ i > 1
           /\ db.phases[i].project_id # ret.args.project_id
           /\ db.phases[i].project_id \in Ids(db.projects)


(* C23: every operation closes the session it obtained on every exit path, *)
(* so that no session is open after any sequence of operations.            *)
C23_NoOpenSessions == sessions = 0


(* C24: when _create_new_project has created a project, the project it     *)
(* created is the selected one: _current_project_id is its id, also when   *)
(* other projects are stored.                                              *)
C24_NewProjectIsSelected ==
    [][(/\ ret'.handler = "_create_new_project"
        /\ ret'.op = "create_project"
        /\ ret'.error = "")
       => app'[ret'.proc].current_project_id = Some(ret'.value[1].id)]_vars


----------------------------------------------------------------------------
(* The plan tab's dialogs and the daily runner tab: main_app.py.           *)

(* The paths of the items of a tree: <<i>> is top-level item i, <<i, j>>   *)
(* its child j, <<i, j, k>> the child k of that.                           *)
Paths(tree) ==
    {<<i>> : i \in DOMAIN tree}
        \cup UNION {{<<i, j>> : j \in DOMAIN tree[i].items} : i \in DOMAIN tree}
        \cup UNION {UNION {{<<i, j, k>> : k \in DOMAIN tree[i].items[j].items} :
                              j \in DOMAIN tree[i].items} : i \in DOMAIN tree}

(* The item at a path of one or two steps. *)
ItemAt(tree, path) ==
    IF Len(path) = 1 THEN tree[path[1]] ELSE tree[path[1]].items[path[2]]

(* A handler that returned before any call of the persistence layer. *)
NoOp(a, d) == [app |-> a, r |-> Result(d, None, "", TRUE), op |-> ""]

(* The user makes an item of the tree, or none, the current one. *)
SelectTreeItem(p, item) ==
    /\ app[p].pc = "idle"
    /\ item # app[p].current_item
    /\ item # None => item[1] \in Paths(app[p].project_plan_tree)
    /\ app' = [app EXCEPT ![p].current_item = item]
    /\ ret' = NoCall("currentItemChanged", p)
    /\ UNCHANGED <<db, today, config, sessions>>

(* Lines 229-231: the item of the new phase is put last in the tree. *)
phase_added(a, r) ==
    [app |-> [a EXCEPT !.project_plan_tree =
                           Append(@, TreeItem(r.value[1].name, r.value[1].id,
                                              <<>>))],
     r |-> r, op |-> "add_phase"]

(* The dialog adding the phase to the first stored project. *)
show_add_phase_dialog_first_project(a, d, accepted, data) ==
    IF a.current_project_id = None \/ ~accepted
    THEN NoOp(a, d)
    ELSE phase_added(a, add_phase(d, d.projects[1].id, data.name,
                                  data.description, data.start_date,
                                  data.end_date))

(* _show_add_phase_dialog; accepted says the dialog was closed with OK. *)
show_add_phase_dialog(a, d, accepted, data) ==
    IF a.current_project_id = None \/ ~accepted
    THEN NoOp(a, d)
    ELSE phase_added(a, add_phase(d, a.current_project_id[1], data.name,
                                  data.description, data.start_date,
                                  data.end_date))

(* Lines 234-253: the top-level item of the current item, or the first     *)
(* top-level item when no item is current.                                 *)
selected_phase_item(a) ==
    IF a.current_item = None
    THEN IF a.project_plan_tree # <<>> THEN Some(<<1>>) ELSE None
    ELSE Some(<<a.current_item[1][1]>>)

(* Lines 256-260 and 306-312: the loops read project.phases of each        *)
(* project that get_all_projects returned.  get_all_projects has closed    *)
(* the session that loaded the projects, and the collection is loaded on   *)
(* its first read, so the read of the first project raises                 *)
(* DetachedInstanceError; with no project the loops do nothing and the id  *)
(* stays None.                                                             *)
find_phase_id(d, phase_name) ==
    IF get_all_projects(d) = <<>>
    THEN Result(d, None, "", TRUE)
    ELSE Result(d, None, "DetachedInstanceError", TRUE)

find_epic_id(d, phase_name, epic_name) ==
    IF get_all_projects(d) = <<>>
    THEN Result(d, None, "", TRUE)
    ELSE Result(d, None, "DetachedInstanceError", TRUE)

(* Lines 274-276: the item of the new epic is put last under the item. *)
epic_added(a, selected, r) ==
    [app |-> [a EXCEPT !.project_plan_tree[selected[1]].items =
                           Append(@, TreeItem(r.value[1].name, r.value[1].id,
                                              <<>>))],
     r |-> r, op |-> "add_epic"]

(* Lines 261-276, found being what the loops left in phase_id. *)
add_epic_under(a, d, selected, found, accepted, data) ==
    IF found.error # "" \/ found.value = None \/ ~accepted
    THEN [app |-> a, r |-> found, op |-> "get_all_projects"]
    ELSE epic_added(a, selected,
                    add_epic(d, found.value[1], data.name, data.description,
                             data.status))

(* _show_add_epic_dialog. *)
show_add_epic_dialog(a, d, accepted, data) ==
    IF selected_phase_item(a) = None
    THEN NoOp(a, d)
    ELSE add_epic_under(
             [a EXCEPT !.current_item = selected_phase_item(a)], d,
             selected_phase_item(a)[1],
             find_phase_id(d, ItemAt(a.project_plan_tree,
                                     selected_phase_item(a)[1]).text),
             accepted, data)

(* Lines 281-291: the first child of the first top-level item that has one. *)
first_epic_item(tree) ==
    LET parents == {i \in DOMAIN tree : tree[i].items # <<>>}
    IN IF parents = {}
       THEN None
       ELSE Some(<<CHOOSE i \in parents : \A j \in parents : i <= j, 1>>)

(* Lines 279-302: the current item, or its ancestor just under a top-level *)
(* item, or the first such item when no item is current.                   *)
selected_epic_item(a) ==
    IF a.current_item = None
    THEN first_epic_item(a.project_plan_tree)
    ELSE IF Len(a.current_item[1]) >= 3
    THEN Some(<<a.current_item[1][1], a.current_item[1][2]>>)
    ELSE a.current_item

(* Lines 329-339: the item of the new task is put last under the item. *)
task_added(a, selected, r) ==
    [app |-> IF Len(selected) = 1
             THEN [a EXCEPT !.project_plan_tree[selected[1]].items =
                                Append(@, TreeItem(r.value[1].name,
                                                   r.value[1].id, <<>>))]
             ELSE [a EXCEPT !.project_plan_tree[selected[1]].items[selected[2]].items =
                                Append(@, TreeItem(r.value[1].name,
                                                   r.value[1].id, <<>>))],
     r |-> r, op |-> "add_task"]

(* Lines 313-339, found being what the loops left in epic_id. *)
add_task_under(a, d, selected, found, accepted, data) ==
    IF found.error # "" \/ found.value = None \/ ~accepted
    THEN [app |-> a, r |-> found, op |-> "get_all_projects"]
    ELSE task_added(a, selected,
                    add_task(d, found.value[1], data.name, data.description,
                             data.assigned_to, data.priority, data.status,
                             data.jira_link, data.start_date, data.due_date))

(* The text of the top-level item above a path, None for a top-level item. *)
phase_name_of(tree, path) ==
    IF Len(path) = 1 THEN None ELSE Some(tree[path[1]].text)

(* _show_add_task_dialog. *)
show_add_task_dialog(a, d, accepted, data) ==
    IF selected_epic_item(a) = None
    THEN NoOp(a, d)
    ELSE add_task_under(
             [a EXCEPT !.current_item = selected_epic_item(a)], d,
             selected_epic_item(a)[1],
             find_epic_id(d, phase_name_of(a.project_plan_tree,
                                           selected_epic_item(a)[1]),
                          ItemAt(a.project_plan_tree,
                                 selected_epic_item(a)[1]).text),
             accepted, data)

(* _submit_daily_log: text is what the seven fields hold after strip(),    *)
(* log_date the date of the tab's date edit.                               *)
submit_daily_log(a, d, now, text, log_date) ==
    IF a.current_project_id = None \/ text = ""
    THEN NoOp(a, d)
    ELSE [app |-> a,
          r |-> add_daily_log(d, now, a.current_project_id[1], text,
                              Some(log_date)),
          op |-> "add_daily_log"]

(* One handler of window p run to its end, s being what it did. *)
Handler(p, handler, s, args) ==
    /\ app[p].pc = "idle"
    /\ db' = s.r.db
    /\ sessions' = sessions + Leak(s.r)
    /\ app' = [app EXCEPT ![p] = s.app]
    /\ ret' = IF s.op = "" THEN NoCall(handler, p)
              ELSE Ret(handler, p, s.op, args, s.r)
    /\ UNCHANGED <<today, config>>

ShowAddPhaseDialog(p, accepted, name) ==
    Handler(p, "_show_add_phase_dialog",
            show_add_phase_dialog(app[p], db, accepted,
                                  [name |-> name, description |-> "",
                                   start_date |-> Some(today),
                                   end_date |-> Some(today)]),
            [name |-> name])

ShowAddEpicDialog(p, accepted, name) ==
    Handler(p, "_show_add_epic_dialog",
            show_add_epic_dialog(app[p], db, accepted,
                                 [name |-> name, description |-> "",
                                  status |-> "Planned"]),
            [name |-> name, accepted |-> accepted])

ShowAddTaskDialog(p, accepted, name) ==
    Handler(p, "_show_add_task_dialog",
            show_add_task_dialog(app[p], db, accepted,
                                 [name |-> name, description |-> "",
                                  assigned_to |-> "", priority |-> "Medium",
                                  status |-> "To Do", jira_link |-> Some(""),
                                  start_date |-> Some(today),
                                  due_date |-> Some(today)]),
            [name |-> name, accepted |-> accepted])

SubmitDailyLog(p, text, log_date) ==
    Handler(p, "_submit_daily_log",
            submit_daily_log(app[p], db, today, text, log_date),
            [log_date |-> log_date])

(* The items the user makes current: the first two at each level. *)
ItemChoices == {<<i>> : i \in 1 .. 2}
                   \cup {<<i, j>> : i \in 1 .. 2, j \in 1 .. 2}
                   \cup {<<i, j, k>> : i \in 1 .. 2, j \in 1 .. 2, k \in 1 .. 2}

MaxGuiPhases == 4       \* stored phases
MaxGuiLogs == 1         \* stored daily logs

(* One window working on its database file: projects are created and       *)
(* selected, the template is run, phases, epics and tasks are added        *)
(* through the dialogs with any item of the tree current, and daily logs   *)
(* are submitted.                                                          *)
NextGui ==
    \/ \E name \in PlanNames :
           /\ Len(db.projects) < MaxProjects
           /\ CreateNewProject(MainProc, name, today, today + 210)
    \/ \E index \in 0 .. MaxProjects : SelectProject(MainProc, index)
    \/ \E reply \in {"Yes", "No"} :
           /\ Len(db.phases) + 3 <= MaxGuiPhases
           /\ AddInitialProjectPlan(MainProc, reply, 0)
    \/ \E accepted \in BOOLEAN :
           /\ Len(db.phases) < MaxGuiPhases
           /\ ShowAddPhaseDialog(MainProc, accepted, "Phase A")
    \/ \E item \in {None} \cup {Some(path) : path \in ItemChoices} :
           SelectTreeItem(MainProc, item)
    \/ \E accepted \in BOOLEAN : ShowAddEpicDialog(MainProc, accepted, "Epic A")
    \/ \E accepted \in BOOLEAN : ShowAddTaskDialog(MainProc, accepted, "Task A")
    \/ \E text \in {"", "notes"}, log_date \in {today + 1} :
           /\ Len(db.daily_logs) < MaxGuiLogs
           /\ SubmitDailyLog(MainProc, text, log_date)

SpecGui == Init /\ [][NextGui]_vars

(* The row the item at a path was made from is a stored row of the table. *)
Represents(tree, path, table) == ItemAt(tree, path).row \in Ids(table)

(* The tree of window p is what a reload from the store would show. *)
TreeIsStored(a, d) ==
    a.project_plan_tree = load_project_plan_tree(a, d).project_plan_tree

(* C25: an epic added through the Add Epic dialog is stored under the      *)
(* phase that the selected item of the tree stands for, a task added       *)
(* through the Add Task dialog under the epic that the selected item       *)
(* stands for, and the tree then shown is the tree a reload would show.    *)
C25_DialogAddsUnderSelectedItem ==
    [][/\ (/\ ret'.handler = "_show_add_epic_dialog"
           /\ selected_phase_item(app[ret'.proc]) # None
           /\ ret'.args.accepted
           /\ Represents(app[ret'.proc].project_plan_tree,
                         selected_phase_item(app[ret'.proc])[1], db.phases))
          => /\ ret'.op = "add_epic"
             /\ ret'.error = ""
             /\ db'.epics = Append(db.epics, ret'.value[1])
             /\ ret'.value[1].phase_id
                    = ItemAt(app[ret'.proc].project_plan_tree,
                             selected_phase_item(app[ret'.proc])[1]).row
             /\ TreeIsStored(app'[ret'.proc], db')
       /\ (/\ ret'.handler = "_show_add_task_dialog"
           /\ selected_epic_item(app[ret'.proc]) # None
           /\ Len(selected_epic_item(app[ret'.proc])[1]) = 2
           /\ ret'.args.accepted
           /\ Represents(app[ret'.proc].project_plan_tree,
                         selected_epic_item(app[ret'.proc])[1], db.epics))
          => /\ ret'.op = "add_task"
             /\ ret'.error = ""
             /\ db'.tasks = Append(db.tasks, ret'.value[1])
             /\ ret'.value[1].epic_id
                    = ItemAt(app[ret'.proc].project_plan_tree,
                             selected_epic_item(app[ret'.proc])[1]).row
             /\ TreeIsStored(app'[ret'.proc], db')]_vars


(* The current project of a window is a stored project, and there is none  *)
(* exactly when no project is stored.                                      *)
CurrentProjectStored(a, d) ==
    /\ a.current_project_id = None <=> d.projects = <<>>
    /\ a.current_project_id # None => a.current_project_id[1] \in Ids(d.projects)

(* The rows the step has put at the end of a table. *)
NewRows(before, after) == SubSeq(after, Len(before) + 1, Len(after))

C27_PhasesOrderedAndContiguous ==
    [][PlanCompleted(ret')
       => /\ \A k \in 1 .. 3 :
                 CreatedPhase(k).start_date[1] <= CreatedPhase(k).end_date[1]
          /\ CreatedPhase(1).end_date = CreatedPhase(2).start_date
          /\ CreatedPhase(2).end_date = CreatedPhase(3).start_date]_vars


(* Every stored task whose status is "Done" has a completed date. *)
DoneIsStamped(d) ==
    \A i \in DOMAIN d.tasks :
        d.tasks[i].status = "Done" => d.tasks[i].completed_date # None

(* A task that has a completed date after the step, and was not stored or  *)
(* had none before it, has the status "Done" after the step.               *)
StampedWhenDone(before, after) ==
    \A i \in DOMAIN after.tasks :
        (/\ after.tasks[i].completed_date # None
         /\ \/ i \notin DOMAIN before.tasks
            \/ before.tasks[i].completed_date = None)
        => after.tasks[i].status = "Done"

(* C28: after any sequence of add_task and update_task_status calls every  *)
(* stored task whose status is "Done" has a completed date, and a task     *)
(* gets a completed date only in a step that leaves its status "Done".     *)
C28_DoneIffCompletedDate ==
    /\ []DoneIsStamped(db)
    /\ [][StampedWhenDone(db, db')]_vars


----------------------------------------------------------------------------
(* What update_task_status leaves alone: one project with a phase, an      *)
(* epic, tasks, a subtask and a daily log, and status updates of stored    *)
(* and of missing task ids.                                                *)
NextFrame ==
    \/ /\ db.projects = <<>>
       /\ CreateProject("Alpha", today, today + 210)
    \/ \E project_id \in Ids(db.projects) :
           /\ db.phases = <<>>
           /\ AddPhase(project_id, "Phase", Some(today), None)
    \/ \E phase_id \in Ids(db.phases) :
           /\ db.epics = <<>>
           /\ AddEpic(phase_id, "Epic", "Planned")
    \/ \E epic_id \in Ids(db.epics) :
           /\ Len(db.tasks) < MaxTasks
           /\ \E status \in {"To Do", "Done"} :
                  AddTask(epic_id, "Task", "Medium", status, Some(today + 7))
    \/ \E task_id \in Ids(db.tasks) :
           /\ db.subtasks = <<>>
           /\ AddSubTask(task_id, "SubTask", "To Do")
    \/ \E project_id \in Ids(db.projects) :
           /\ db.daily_logs = <<>>
           /\ AddDailyLog(project_id, "notes", None)
    \/ \E task_id \in 1 .. Len(db.tasks) + 1 :
           \E new_status \in {"In Progress", "Done", "Blocked"} :
               UpdateTaskStatus(task_id, new_status)

SpecFrame == Init /\ [][NextFrame]_vars

(* The columns of a task that a status update may write. *)
StatusColumns == {"status", "completed_date"}

(* Task j is the same in both databases but for its status columns. *)
SameButStatus(before, after, j) ==
    \A column \in DOMAIN before.tasks[j] \ StatusColumns :
        after.tasks[j][column] = before.tasks[j][column]

(* C29: update_task_status changes only the status and, when the new       *)
(* status is "Done", the completed date of the task with the given id;     *)
(* the task's other columns, every other task and every row of the other   *)
(* tables are as before.                                                   *)
C29_UpdateTaskStatusFrame ==
    [][ret'.op = "update_task_status"
       => /\ db'.projects = db.projects
          /\ db'.phases = db.phases
          /\ db'.epics = db.epics
          /\ db'.subtasks = db.subtasks
          /\ db'.daily_logs = db.daily_logs
          /\ DOMAIN db'.tasks = DOMAIN db.tasks
          /\ \A j \in DOMAIN db.tasks :
                 IF db.tasks[j].id = ret'.args.task_id
                 THEN /\ SameButStatus(db, db', j)
                      /\ ret'.args.new_status # "Done"
                         => db'.tasks[j].completed_date
                                = db.tasks[j].completed_date
                 ELSE db'.tasks[j] = db.tasks[j]]_vars

(* The first of two tasks set to "Done" and stamped, with a subtask and a  *)
(* daily log stored.                                                       *)
C29_Witness ==
    /\ ret.op = "update_task_status"
    /\ ret.args.task_id = 1
    /\ ret.args.new_status = "Done"
    /\ Len(db.tasks) = 2
    /\ db.tasks[1].status = "Done"
    /\ db.tasks[1].completed_date # None
    /\ db.tasks[2].status = "To Do"
    /\ db.subtasks # <<>>
    /\ db.daily_logs # <<>>


(* The ids of the rows the step has put at the end of a table. *)
NewIds(before, after) == Ids(NewRows(before, after))

(* The value of a column in every row of a sequence of rows. *)
ColumnOf(rows, column) == {rows[i][column] : i \in DOMAIN rows}

(* C30: a run of the plan template leaves every stored row as it was and   *)
(* adds phases under the selected project only, epics under the phases it  *)
(* added and tasks under the epics it added; with no project selected, or  *)
(* the confirmation declined, it writes nothing.                           *)
C30_TemplateWritesUnderSelectedProject ==
    [][ret'.handler = "_add_initial_project_plan"
       => /\ db'.projects = db.projects
          /\ db'.subtasks = db.subtasks
          /\ db'.daily_logs = db.daily_logs
          /\ IsPrefix(db.phases, db'.phases)
          /\ IsPrefix(db.epics, db'.epics)
          /\ IsPrefix(db.tasks, db'.tasks)
          /\ {Some(id) : id \in ColumnOf(NewRows(db.phases, db'.phases),
                                          "project_id")}
                 \subseteq {app[ret'.proc].current_project_id}
          /\ ColumnOf(NewRows(db.epics, db'.epics), "phase_id")
                 \subseteq NewIds(db.phases, db'.phases)
          /\ ColumnOf(NewRows(db.tasks, db'.tasks), "epic_id")
                 \subseteq NewIds(db.epics, db'.epics)
          /\ (app[ret'.proc].current_project_id = None \/ ret'.args.reply = "No")
             => (db' = db /\ sessions' = sessions)]_vars

(* A completed run on the second project after a completed run on the      *)
(* first: the new rows lie under project 2, the rows of project 1 stay.    *)
C30_Witness ==
    /\ PlanCompleted(ret)
    /\ app[ret.proc].current_project_id = Some(2)
    /\ ColumnOf(SubSeq(db.phases, 1, 3), "project_id") = {1}
    /\ ColumnOf(SubSeq(db.phases, 4, 6), "project_id") = {2}
    /\ ColumnOf(SubSeq(db.tasks, 27, 52), "epic_id") = 8 .. 14

====
